---- MODULE Spec2Model ----
(***************************************************************************)
(* A model of dj-sellsy: the SellsyClient facade (src/djsellsy/client.py), *)
(* its reference-data cache and its domain operations, as a state machine  *)
(* over the remote system's tables, the per-object cache attributes and    *)
(* the record of the last operation (its inputs, the remote calls it       *)
(* issued in order, and how it ended).                                     *)
(***************************************************************************)
EXTENDS Integers, Sequences, FiniteSets, TLC

VARIABLES
    remote,   \* the remote system's tables, as its API returns them
    cache,    \* cache[self][table]: the _<table>_raw_data attribute of a SellsyClient
    last      \* the last operation: name, inputs, remote calls in order, outcome

vars == <<remote, cache, last>>

---------------------------------------------------------------------------
(* Python values.  A value is a record: t is the Python type, n the number *)
(* in tenths (so that 5.5 and 20.0 are representable: 55 and 200), s the   *)
(* text of a str as a sequence of characters.  Numbers are non-negative.   *)

PyNone == [t |-> "none", n |-> 0, s |-> <<>>]
PyInt(i) == [t |-> "int", n |-> i * 10, s |-> <<>>]
PyFloat(tenths) == [t |-> "float", n |-> tenths, s |-> <<>>]
PyStr(chars) == [t |-> "str", n |-> 0, s |-> chars]
PyBool(b) == [t |-> "bool", n |-> IF b THEN 10 ELSE 0, s |-> <<>>]

IsNumber(v) == v.t \in {"int", "float", "bool"}

Digits == <<"0", "1", "2", "3", "4", "5", "6", "7", "8", "9">>

IsDigit(c) == \E d \in 1..Len(Digits) : Digits[d] = c

DigitVal(c) == (CHOOSE d \in 1..Len(Digits) : Digits[d] = c) - 1

RECURSIVE NatToChars(_)
NatToChars(k) ==
    IF k < 10 THEN <<Digits[k + 1]>>
    ELSE Append(NatToChars(k \div 10), Digits[(k % 10) + 1])

RECURSIVE CharsToNat(_)
CharsToNat(cs) ==
    IF Len(cs) = 0 THEN 0
    ELSE CharsToNat(SubSeq(cs, 1, Len(cs) - 1)) * 10 + DigitVal(cs[Len(cs)])

IsIntLiteral(cs) == Len(cs) > 0 /\ \A i \in 1..Len(cs) : IsDigit(cs[i])

\* int(v): an int is itself, a float is truncated, a str is parsed as a
\* decimal literal or raises ValueError, None raises TypeError.
py_int(v) ==
    CASE v.t \in {"int", "bool"} -> [exc |-> "", n |-> v.n]
      [] v.t = "float" -> [exc |-> "", n |-> (v.n \div 10) * 10]
      [] v.t = "str" ->
            IF IsIntLiteral(v.s) THEN [exc |-> "", n |-> CharsToNat(v.s) * 10]
            ELSE [exc |-> "ValueError", n |-> 0]
      [] OTHER -> [exc |-> "TypeError", n |-> 0]

\* a == b: numbers compare by value whatever their type, strs by text,
\* and a number never equals a str.
py_eq(a, b) ==
    \/ IsNumber(a) /\ IsNumber(b) /\ a.n = b.n
    \/ a.t = "str" /\ b.t = "str" /\ a.s = b.s
    \/ a.t = "none" /\ b.t = "none"

\* str(v): 20 is "20", 20.0 is "20.0", 5.5 is "5.5", a str is itself.
py_str(v) ==
    CASE v.t = "int" -> NatToChars(v.n \div 10)
      [] v.t = "float" -> NatToChars(v.n \div 10) \o <<".">> \o NatToChars(v.n % 10)
      [] v.t = "str" -> v.s
      [] v.t = "bool" -> IF v.n = 10 THEN <<"T", "r", "u", "e">>
                         ELSE <<"F", "a", "l", "s", "e">>
      [] OTHER -> <<"N", "o", "n", "e">>

\* bool(v): None, False, 0, 0.0 and "" are falsy.
py_truthy(v) ==
    CASE v.t = "str" -> Len(v.s) > 0
      [] v.t = "none" -> FALSE
      [] OTHER -> v.n # 0

---------------------------------------------------------------------------
(* The remote system.  A table is the dict the API returns, as the         *)
(* sequence of its items in the dict's order; ids are the decimal strings  *)
(* of the API.  The remote system is in one of the states of RemoteStates, *)
(* and changes from one to another outside the program.                    *)

EmptyTable == <<>>

CurrenciesA ==
    << [key |-> "defaultCurrency", id |-> <<"9">>, name |-> "EUR"],
       [key |-> "1", id |-> <<"1">>, name |-> "EUR"],
       [key |-> "2", id |-> <<"2">>, name |-> "USD"] >>

CurrenciesB ==
    << [key |-> "defaultCurrency", id |-> <<"9">>, name |-> "EUR"],
       [key |-> "3", id |-> <<"3">>, name |-> "EUR"] >>

PayMediumsA ==
    << [key |-> "1", id |-> <<"2", "1">>, syscode |-> "check", value |-> "Cheque"],
       [key |-> "2", id |-> <<"2", "2">>, syscode |-> "cb", value |-> "Carte"] >>

PayMediumsB ==
    << [key |-> "5", id |-> <<"2", "5">>, syscode |-> "check", value |-> "Cheque"] >>

PayDatesA ==
    << [key |-> "1", id |-> <<"3", "1">>, syscode |-> "onorder"],
       [key |-> "2", id |-> <<"3", "2">>, syscode |-> "30days"] >>

PayDatesB ==
    << [key |-> "4", id |-> <<"3", "4">>, syscode |-> "30days"] >>

PropertiesB ==
    << [key |-> "7", id |-> <<"7">>, code |-> "vip"],
       [key |-> "8", id |-> <<"8">>, code |-> "age"] >>

GroupsB ==
    << [key |-> "4", id |-> <<"4">>, code |-> "grp"],
       [key |-> "5", id |-> <<"5">>, code |-> "grp2"] >>

TaxesA ==
    << [key |-> "defaultTax", id |-> <<"9", "9">>, value |-> <<"2", "0">>],
       [key |-> "1", id |-> <<"1", "1">>, value |-> <<"2", "0">>],
       [key |-> "2", id |-> <<"1", "2">>, value |-> <<"5", ".", "5">>] >>

TaxesB ==
    << [key |-> "1", id |-> <<"1", "5">>, value |-> <<"2", "0">>],
       [key |-> "3", id |-> <<"1", "6">>, value |-> <<"1", "0">>] >>

ProductsA ==
    << [key |-> "41", id |-> <<"4", "1">>] >>

ProductsB ==
    << [key |-> "41", id |-> <<"4", "1">>],
       [key |-> "42", id |-> <<"4", "2">>] >>

\* Client.getList: each client's standard fields and its 'customfields'
\* list, one dict per custom field with its code and the value slots set.
ClientsA ==
    << [key |-> "41", fields |-> [name |-> PyStr(<<"A">>)],
        customfields |-> << [code |-> "vip", stringval |-> PyStr(<<"g">>)] >>] >>

ClientsB ==
    << [key |-> "41", fields |-> [name |-> PyStr(<<"A">>)],
        customfields |-> << [code |-> "vip", stringval |-> PyStr(<<"g">>)] >>],
       [key |-> "42", fields |-> [name |-> PyStr(<<"B">>)],
        customfields |-> << [code |-> "vip", boolval |-> PyBool(FALSE),
                             textval |-> PyStr(<<"g">>)] >>],
       [key |-> "43", fields |-> [name |-> PyStr(<<"A">>)],
        customfields |-> << >>] >>

RemoteA ==
    [currencies |-> CurrenciesA, payment_modes |-> PayMediumsA,
     payment_dates |-> PayDatesA, properties |-> EmptyTable,
     property_groups |-> EmptyTable, taxes |-> TaxesA, products |-> ProductsA,
     clients |-> ClientsA]

RemoteB ==
    [currencies |-> CurrenciesB, payment_modes |-> PayMediumsB,
     payment_dates |-> PayDatesB, properties |-> PropertiesB,
     property_groups |-> GroupsB, taxes |-> TaxesB, products |-> ProductsB,
     clients |-> ClientsB]

RemoteStates == {RemoteA, RemoteB}

Tables == {"currencies", "payment_modes", "payment_dates", "properties",
           "property_groups", "taxes", "products", "clients"}

ReferenceTables == Tables \ {"products", "clients"}

\* One remote call, as the facade sends it.
Call(method, params) == [method |-> method, params |-> params]

NoParams == [none |-> TRUE]

PAGINATION_ALL == [pagination |-> "all"]

---------------------------------------------------------------------------
(* The remote API facade: self._client.api(method, params).  A call either *)
(* raises SellsyError (the remote system answered with an error) or        *)
(* returns the response built from the remote tables.                      *)

api(rem, method) ==
    CASE method = "AccountPrefs.getCurrencies" -> rem.currencies
      [] method = "Accountdatas.getPayMediums" -> rem.payment_modes
      [] method = "Accountdatas.getPayDates" -> [payDates |-> rem.payment_dates]
      [] method = "CustomFields.getList" -> [result |-> rem.properties]
      [] method = "CustomFields.getGroupsList" -> [result |-> rem.property_groups]
      [] method = "Accountdatas.getTaxes" -> rem.taxes
      [] method = "Catalogue.getList" -> [result |-> rem.products]
      [] method = "Client.getList" -> [result |-> rem.clients]

---------------------------------------------------------------------------
(* The reference-data cache.  Each _<table>_raw_data attribute is None     *)
(* until a fetch stores a table in it.                                     *)

Instances == {1, 2}

NotFetched == [fetched |-> FALSE, data |-> EmptyTable]

Stored(data) == [fetched |-> TRUE, data |-> data]

\* py_not with the test `self._x_raw_data is None`.
py_not_none_only(stored) == ~stored.fetched

\* `not self._x_raw_data`: None and the empty dict are both falsy.
py_not(stored) == ~stored.fetched \/ Len(stored.data) = 0

\* The outcome of a step of an operation: the object's cache attributes
\* after it, the remote calls issued, the exception raised ("" for none)
\* and the value returned.
Outcome(c, calls, exc, data) == [cache |-> c, calls |-> calls, exc |-> exc, data |-> data]

\* A call that fails leaves the attribute as it was: the assignment never runs.
get_currencies_raw_data(c, rem, force_fetch, fail) ==
    IF force_fetch \/ py_not(c.currencies)
    THEN LET call == Call("AccountPrefs.getCurrencies", NoParams) IN
         IF fail THEN Outcome(c, <<call>>, "SellsyError", EmptyTable)
         ELSE LET data == api(rem, call.method) IN
              Outcome([c EXCEPT !.currencies = Stored(data)], <<call>>, "", data)
    ELSE Outcome(c, <<>>, "", c.currencies.data)

get_payment_modes_raw_data(c, rem, force_fetch, fail) ==
    IF force_fetch \/ py_not(c.payment_modes)
    THEN LET call == Call("Accountdatas.getPayMediums", NoParams) IN
         IF fail THEN Outcome(c, <<call>>, "SellsyError", EmptyTable)
         ELSE LET data == api(rem, call.method) IN
              Outcome([c EXCEPT !.payment_modes = Stored(data)], <<call>>, "", data)
    ELSE Outcome(c, <<>>, "", c.payment_modes.data)

get_payment_dates_raw_data(c, rem, force_fetch, fail) ==
    IF force_fetch \/ py_not(c.payment_dates)
    THEN LET call == Call("Accountdatas.getPayDates", NoParams) IN
         IF fail THEN Outcome(c, <<call>>, "SellsyError", EmptyTable)
         ELSE LET data == api(rem, call.method).payDates IN
              Outcome([c EXCEPT !.payment_dates = Stored(data)], <<call>>, "", data)
    ELSE Outcome(c, <<>>, "", c.payment_dates.data)

get_properties_raw_data(c, rem, force_fetch, fail) ==
    IF force_fetch \/ py_not(c.properties)
    THEN LET call == Call("CustomFields.getList", PAGINATION_ALL) IN
         IF fail THEN Outcome(c, <<call>>, "SellsyError", EmptyTable)
         ELSE LET data == api(rem, call.method).result IN
              Outcome([c EXCEPT !.properties = Stored(data)], <<call>>, "", data)
    ELSE Outcome(c, <<>>, "", c.properties.data)

get_property_groups_raw_data(c, rem, force_fetch, fail) ==
    IF force_fetch \/ py_not(c.property_groups)
    THEN LET call == Call("CustomFields.getGroupsList", PAGINATION_ALL) IN
         IF fail THEN Outcome(c, <<call>>, "SellsyError", EmptyTable)
         ELSE LET data == api(rem, call.method).result IN
              Outcome([c EXCEPT !.property_groups = Stored(data)], <<call>>, "", data)
    ELSE Outcome(c, <<>>, "", c.property_groups.data)

get_taxes_raw_data(c, rem, force_fetch, fail) ==
    IF force_fetch \/ py_not(c.taxes)
    THEN LET call == Call("Accountdatas.getTaxes", NoParams) IN
         IF fail THEN Outcome(c, <<call>>, "SellsyError", EmptyTable)
         ELSE LET data == api(rem, call.method) IN
              Outcome([c EXCEPT !.taxes = Stored(data)], <<call>>, "", data)
    ELSE Outcome(c, <<>>, "", c.taxes.data)

get_products_raw_data(c, rem, force_fetch, fail) ==
    IF force_fetch \/ py_not(c.products)
    THEN LET call == Call("Catalogue.getList", [type |-> "item", pagination |-> "all"]) IN
         IF fail THEN Outcome(c, <<call>>, "SellsyError", EmptyTable)
         ELSE LET data == api(rem, call.method).result IN
              Outcome([c EXCEPT !.products = Stored(data)], <<call>>, "", data)
    ELSE Outcome(c, <<>>, "", c.products.data)

get_clients_raw_data(c, rem, force_fetch, fail) ==
    IF force_fetch \/ py_not(c.clients)
    THEN LET call == Call("Client.getList", PAGINATION_ALL) IN
         IF fail THEN Outcome(c, <<call>>, "SellsyError", EmptyTable)
         ELSE LET data == api(rem, call.method).result IN
              Outcome([c EXCEPT !.clients = Stored(data)], <<call>>, "", data)
    ELSE Outcome(c, <<>>, "", c.clients.data)

get_raw_data(table, c, rem, force_fetch, fail) ==
    CASE table = "currencies" -> get_currencies_raw_data(c, rem, force_fetch, fail)
      [] table = "payment_modes" -> get_payment_modes_raw_data(c, rem, force_fetch, fail)
      [] table = "payment_dates" -> get_payment_dates_raw_data(c, rem, force_fetch, fail)
      [] table = "properties" -> get_properties_raw_data(c, rem, force_fetch, fail)
      [] table = "property_groups" -> get_property_groups_raw_data(c, rem, force_fetch, fail)
      [] table = "taxes" -> get_taxes_raw_data(c, rem, force_fetch, fail)
      [] table = "products" -> get_products_raw_data(c, rem, force_fetch, fail)

---------------------------------------------------------------------------
(* The resolvers: code -> id.  Each scans the raw table, takes the first   *)
(* match ([...][0]) and converts its id with int(); the IndexError of an   *)
(* empty match list is caught and None returned.                           *)

\* What a resolver returns or raises: none is TRUE for None, else id is the int.
Resolved(raw, ids) ==
    IF raw.exc # "" THEN [cache |-> raw.cache, calls |-> raw.calls, exc |-> raw.exc,
                          none |-> FALSE, id |-> 0]
    ELSE IF Len(ids) = 0 THEN [cache |-> raw.cache, calls |-> raw.calls, exc |-> "",
                               none |-> TRUE, id |-> 0]
    ELSE LET conv == py_int(PyStr(ids[1])) IN
         [cache |-> raw.cache, calls |-> raw.calls, exc |-> conv.exc,
          none |-> FALSE, id |-> conv.n \div 10]

ids_of(entries) == [i \in 1..Len(entries) |-> entries[i].id]

get_currency_id(c, rem, currency_code, force_fetch, fail) ==
    LET raw == get_currencies_raw_data(c, rem, force_fetch, fail)
        hit(currency) == currency.key # "defaultCurrency" /\ currency.name = currency_code
    IN Resolved(raw, ids_of(SelectSeq(raw.data, hit)))

get_payment_mode_id(c, rem, payment_mode_code, force_fetch, fail) ==
    LET raw == get_payment_modes_raw_data(c, rem, force_fetch, fail)
        hit(payment_mode) == \/ payment_mode.syscode = payment_mode_code
                             \/ payment_mode.value = payment_mode_code
    IN Resolved(raw, ids_of(SelectSeq(raw.data, hit)))

\* What the 'id' of a pay-date dict holds: the str the caller wrote, or the
\* int or None a resolver returned.
StrId(code) == [str |-> TRUE, none |-> FALSE, id |-> 0, code |-> code]

ResolvedId(r) == [str |-> FALSE, none |-> r.none, id |-> r.id, code |-> ""]

\* _get_payment_date_id given any such value: one that is no str equals no
\* syscode.
payment_date_id_of(c, rem, value, force_fetch, fail) ==
    LET raw == get_payment_dates_raw_data(c, rem, force_fetch, fail)
        hit(payment_date) == value.str /\ payment_date.syscode = value.code
    IN Resolved(raw, ids_of(SelectSeq(raw.data, hit)))

get_payment_date_id(c, rem, payment_date_code, force_fetch, fail) ==
    payment_date_id_of(c, rem, StrId(payment_date_code), force_fetch, fail)

get_property_id(c, rem, code, force_fetch, fail) ==
    LET raw == get_properties_raw_data(c, rem, force_fetch, fail)
        hit(prop) == prop.code = code
    IN Resolved(raw, ids_of(SelectSeq(raw.data, hit)))

get_property_group_id(c, rem, code, force_fetch, fail) ==
    LET raw == get_property_groups_raw_data(c, rem, force_fetch, fail)
        hit(group) == group.code = code
    IN Resolved(raw, ids_of(SelectSeq(raw.data, hit)))

\* key.startswith('default'), over the keys the tax table uses.
startswith_default(key) == key \in {"default", "defaultTax", "defaultTaxId"}

\* normalized_tax_value without the conversion to int.
normalized_tax_value_kept(tax_value) == tax_value

\* "Use an int for `tax_value` whenever possible": int(tax_value) is
\* evaluated first, before the table is read, and raises for a value int()
\* does not accept.
normalized_tax_value(tax_value) ==
    LET int_tax_value == [t |-> "int", n |-> py_int(tax_value).n, s |-> <<>>] IN
    IF py_eq(int_tax_value, tax_value) THEN int_tax_value ELSE tax_value

get_tax_id(c, rem, tax_value, force_fetch, fail) ==
    IF py_int(tax_value).exc # ""
    THEN [cache |-> c, calls |-> <<>>, exc |-> py_int(tax_value).exc,
          none |-> FALSE, id |-> 0]
    ELSE LET raw == get_taxes_raw_data(c, rem, force_fetch, fail)
             text == py_str(normalized_tax_value(tax_value))
             hit(tax) == ~startswith_default(tax.key) /\ tax.value = text
         IN Resolved(raw, ids_of(SelectSeq(raw.data, hit)))

get_id(table, c, rem, code, force_fetch, fail) ==
    CASE table = "currencies" -> get_currency_id(c, rem, code, force_fetch, fail)
      [] table = "payment_modes" -> get_payment_mode_id(c, rem, code, force_fetch, fail)
      [] table = "payment_dates" -> get_payment_date_id(c, rem, code, force_fetch, fail)
      [] table = "properties" -> get_property_id(c, rem, code, force_fetch, fail)
      [] table = "property_groups" -> get_property_group_id(c, rem, code, force_fetch, fail)
      [] table = "taxes" -> get_tax_id(c, rem, code, force_fetch, fail)

---------------------------------------------------------------------------
(* The state machine.                                                      *)

NoCache == [t \in Tables |-> NotFetched]

Idle == [op |-> "init"]

Init ==
    /\ remote \in RemoteStates
    /\ cache = [self \in Instances |-> NoCache]
    /\ last = Idle

\* The remote system changes outside the program (another process, the web
\* interface): nothing in the program is told.
RemoteChange ==
    /\ remote' \in RemoteStates \ {remote}
    /\ UNCHANGED <<cache, last>>

\* The codes and values callers resolve.
Codes(table) ==
    CASE table = "currencies" -> {"EUR", "USD", "GBP"}
      [] table = "payment_modes" -> {"check", "cb", "Carte", "tip"}
      [] table = "payment_dates" -> {"onorder", "30days", "custom"}
      [] table = "properties" -> {"vip", "age", "nope"}
      [] table = "property_groups" -> {"grp", "nope"}
      [] table = "taxes" ->
            {PyInt(20), PyFloat(200), PyFloat(55), PyInt(10), PyFloat(100), PyInt(7),
             PyFloat(70), PyStr(<<"2", "0">>), PyStr(<<"5", ".", "5">>),
             PyStr(<<"a", "b", "c">>)}

\* self._get_<table>_raw_data(force_fetch)
GetRawData(self, table, force_fetch, fail) ==
    LET r == get_raw_data(table, cache[self], remote, force_fetch, fail) IN
    /\ cache' = [cache EXCEPT ![self] = r.cache]
    /\ last' = [op |-> "get_raw_data", self |-> self, table |-> table,
                force_fetch |-> force_fetch, calls |-> r.calls, exc |-> r.exc,
                data |-> r.data]
    /\ UNCHANGED remote

\* self._get_<entry>_id(code, force_fetch)
GetId(self, table, code, force_fetch, fail) ==
    LET r == get_id(table, cache[self], remote, code, force_fetch, fail) IN
    /\ cache' = [cache EXCEPT ![self] = r.cache]
    /\ last' = [op |-> "get_id", self |-> self, table |-> table, code |-> code,
                force_fetch |-> force_fetch, calls |-> r.calls, exc |-> r.exc,
                none |-> r.none, id |-> r.id]
    /\ UNCHANGED remote

\* The tables' attributes are independent of one another (no resolver reads
\* two of them), so a run of the reference-data specification works one
\* client object on one table: the others stay as constructed.
OnlyTable(self, table) == \A t \in Tables \ {table} : ~cache[self][t].fetched

\* The reference-data cache of one SellsyClient and its resolvers.
NextRef ==
    \/ RemoteChange
    \/ \E table \in ReferenceTables, force_fetch \in BOOLEAN, fail \in BOOLEAN :
          OnlyTable(1, table) /\ GetRawData(1, table, force_fetch, fail)
    \/ \E table \in ReferenceTables, force_fetch \in BOOLEAN, fail \in BOOLEAN :
          \E code \in Codes(table) :
             OnlyTable(1, table) /\ GetId(1, table, code, force_fetch, fail)

SpecRef == Init /\ [][NextRef]_vars

---------------------------------------------------------------------------
(* Properties of the reference-data cache and the resolvers (SpecRef).     *)

\* The text under which the tax table lists a value: 20 and 20.0 are "20",
\* 5.5 is "5.5", a str is its own text.
TaxText(v) ==
    CASE v.t = "str" -> v.s
      [] v.t = "float" /\ v.n % 10 # 0 -> py_str(v)
      [] IsNumber(v) -> NatToChars(v.n \div 10)
      [] OTHER -> <<>>

\* Entry e of a table is the entry a code names.
Matches(table, e, code) ==
    CASE table = "currencies" -> e.key # "defaultCurrency" /\ e.name = code
      [] table = "payment_modes" -> e.syscode = code \/ e.value = code
      [] table = "payment_dates" -> e.syscode = code
      [] table = "properties" -> e.code = code
      [] table = "property_groups" -> e.code = code
      [] table = "taxes" -> ~startswith_default(e.key) /\ e.value = TaxText(code)

\* The table a resolver of this object reads when the remote call, if any,
\* succeeds: the stored one if there is one, else the remote one.
TableRead(self, table) ==
    IF cache[self][table].fetched THEN cache[self][table].data ELSE remote[table]

\* C1: each of the six resolvers, given a code or value that matches no
\* entry of the table, returns None and raises no exception (the remote
\* call, if one is made, succeeding).
C1_NoMatchReturnsNone ==
    (/\ last.op = "get_id"
     /\ last.exc # "SellsyError"
     /\ \A i \in 1..Len(TableRead(last.self, last.table)) :
           ~Matches(last.table, TableRead(last.self, last.table)[i], last.code))
    => (last.exc = "" /\ last.none)

\* C2: a tax value that is a whole number in float form (20.0) resolves as
\* its integer form (20): to the id of the first entry listed under that
\* integer's text when there is one, to None otherwise.
C2_WholeFloatResolvesAsInt ==
    (/\ last.op = "get_id" /\ last.table = "taxes"
     /\ last.code.t = "float" /\ last.code.n % 10 = 0
     /\ last.exc # "SellsyError")
    => LET k == last.code.n \div 10
           data == cache[last.self].taxes.data
           hit(tax) == ~startswith_default(tax.key) /\ tax.value = NatToChars(k)
           hits == SelectSeq(data, hit)
           asInt == get_tax_id(NoCache, [remote EXCEPT !.taxes = data], PyInt(k),
                               TRUE, FALSE)
       IN /\ last.exc = ""
          /\ last.none = (Len(hits) = 0)
          /\ ~last.none => last.id = CharsToNat(hits[1].id)
          /\ last.none = asInt.none /\ last.id = asInt.id

\* C2 witness: 20.0 resolved to the id of the entry listed under "20".
C2_Witness ==
    /\ last.op = "get_id" /\ last.table = "taxes"
    /\ last.code = PyFloat(200)
    /\ last.exc = "" /\ ~last.none /\ last.id = 11

\* A step of GetRawData: the only steps that leave the remote system alone
\* and end with a get_raw_data record.
IsGetRawDataStep == remote' = remote /\ last'.op = "get_raw_data"

\* C9 as stated: a non-forced read after any completed fetch issues no call
\* and returns the stored table; otherwise one call is issued and its
\* response replaces the stored table (the call succeeding).
C9_StoredTableServedAfterAnyFetch ==
    [][(IsGetRawDataStep /\ last'.exc = "") =>
        LET before == cache[last'.self][last'.table]
            after == cache'[last'.self][last'.table]
        IN IF ~last'.force_fetch /\ before.fetched
           THEN last'.calls = <<>> /\ last'.data = before.data /\ after = before
           ELSE /\ Len(last'.calls) = 1
                /\ last'.data = remote[last'.table]
                /\ after = Stored(remote[last'.table])]_vars

\* C9 amended: a non-forced read issues no call and returns the stored
\* table when a NON-EMPTY table is stored; when forced, or when nothing or
\* an empty table is stored, exactly one call is issued, and its response,
\* if it succeeds, replaces the stored table and is returned; if it fails
\* the stored table is left as it was.
C9_NonEmptyStoredTableServed ==
    [][IsGetRawDataStep =>
        LET before == cache[last'.self][last'.table]
            after == cache'[last'.self][last'.table]
        IN IF ~last'.force_fetch /\ before.fetched /\ Len(before.data) > 0
           THEN /\ last'.calls = <<>> /\ last'.exc = ""
                /\ last'.data = before.data /\ after = before
           ELSE /\ Len(last'.calls) = 1
                /\ last'.exc = "" => /\ last'.data = remote[last'.table]
                                     /\ after = Stored(remote[last'.table])
                /\ last'.exc # "" => after = before]_vars

\* C9 witness: a non-forced read served the stored table without a call
\* although the remote table has changed since it was fetched.
C9_Witness ==
    /\ last.op = "get_raw_data" /\ ~last.force_fetch
    /\ last.calls = <<>> /\ last.exc = ""
    /\ Len(last.data) > 0 /\ last.data # remote[last.table]

---------------------------------------------------------------------------
(* Domain operations.  An operation runs as a sequence of steps over a     *)
(* running state: the object's cache attributes, the remote tables, the    *)
(* log of what it has done so far (its remote calls and its sleeps, in     *)
(* order) and the exception that ended it, if any.  failAt numbers the     *)
(* remote call the remote system answers with an error (0: none).          *)

Start(c, rem) == [cache |-> c, rem |-> rem, calls |-> <<>>, exc |-> ""]

IsRemoteCall(call) == call.method # "time.sleep"

RemoteCalls(calls) == SelectSeq(calls, IsRemoteCall)

FailsNext(st, failAt) == Len(RemoteCalls(st.calls)) + 1 = failAt

\* The running state after a fetch or a resolver r that started from st.
After(st, r) ==
    [cache |-> r.cache, rem |-> st.rem, calls |-> st.calls \o r.calls, exc |-> r.exc]

\* What a call that succeeds changes in the remote tables: a delete removes
\* the entry of that id.  (The entities a create adds are not listed in the
\* tables modelled here; RemoteChange stands for tables that gain entries.)
without_id(table, id) ==
    LET keep(e) == CharsToNat(e.id) # id IN SelectSeq(table, keep)

\* The same for an id sent as the API returned it, and for a dict key.
without_raw_id(table, raw_id) ==
    LET keep(e) == e.id # raw_id IN SelectSeq(table, keep)

without_key(table, key) ==
    LET keep(e) == e.key # key IN SelectSeq(table, keep)

remote_effect(rem, method, params) ==
    CASE method = "CustomFields.delete" ->
            [rem EXCEPT !.properties = without_id(@, params.id)]
      [] method = "CustomFields.deleteGroup" ->
            [rem EXCEPT !.property_groups = without_id(@, params.groupid)]
      [] method = "Catalogue.delete" ->
            [rem EXCEPT !.products = without_raw_id(@, params.id)]
      [] method = "Client.delete" ->
            [rem EXCEPT !.clients = without_key(@, params.clientid)]
      [] OTHER -> rem

\* self._client.api(method=..., params=...) for a call that is not a fetch
\* of a cached table.
call_api(st, method, params, failAt) ==
    IF FailsNext(st, failAt)
    THEN [st EXCEPT !.calls = Append(@, Call(method, params)), !.exc = "SellsyError"]
    ELSE [st EXCEPT !.calls = Append(@, Call(method, params)),
                    !.rem = remote_effect(@, method, params)]

POST_REQUEST_DELAY == 1

\* self.wait(): time.sleep(delay or self.POST_REQUEST_DELAY)
wait(st) ==
    [st EXCEPT !.calls = Append(@, Call("time.sleep", [delay |-> POST_REQUEST_DELAY]))]

\* An optional int: what a resolver returned.
IdOf(r) == [none |-> r.none, id |-> r.id]

EmptyDict == [k \in {} |-> TRUE]

\* The result of an operation: its final running state and what it returned.
Result(st, ret) == [st |-> st, ret |-> ret]

NoReturn == [none |-> TRUE, id |-> 0]

---------------------------------------------------------------------------
(* Custom properties.                                                      *)

SELLSY_DEFAULT_CURRENCY == "EUR"

\* _prepare_prop_choices with the first two choices marked.
prepare_prop_choices_two_marked(choices) ==
    [i \in 1..Len(choices) |->
        [value |-> choices[i],
         isDefault |-> IF i - 1 <= 1 THEN "Y" ELSE "N",
         checked |-> IF i - 1 <= 1 THEN "Y" ELSE "N"]]

\* enumerate() counts from 0: the item at position i has idx = i - 1.
prepare_prop_choices(choices) ==
    [i \in 1..Len(choices) |->
        [value |-> choices[i],
         isDefault |-> IF i - 1 = 0 THEN "Y" ELSE "N",
         checked |-> IF i - 1 = 0 THEN "Y" ELSE "N"]]

\* obj_type.rstrip('s'), over the object types used.
rstrip_s(obj_type) ==
    CASE obj_type = "clients" -> "client"
      [] obj_type = "items" -> "item"
      [] OTHER -> obj_type

use_on(obj_types) ==
    <<"showIn_list", "showIn_filter">> \o
    [i \in 1..Len(obj_types) |-> <<"useOn", rstrip_s(obj_types[i])>>]

create_property(c, rem, code, label, obj_types, data_type, choices, new_id, failAt) ==
    LET st0 == Start(c, rem)
        params0 == [code |-> code, name |-> label, type |-> data_type,
                    useOn |-> use_on(obj_types)]
        cur == get_currency_id(c, rem, SELLSY_DEFAULT_CURRENCY, FALSE, FailsNext(st0, failAt))
        st1 == IF data_type = "amount" THEN After(st0, cur) ELSE st0
        prefs == IF data_type = "amount" THEN [currencyid |-> IdOf(cur)] ELSE EmptyDict
        params1 == [preferences |-> prefs] @@ params0
        params == IF Len(choices) > 0
                  THEN [preferenceslist |-> prepare_prop_choices(choices)] @@ params1
                  ELSE params1
        st2 == call_api(st1, "CustomFields.create", params, failAt)
    IN IF st1.exc # "" THEN Result(st1, NoReturn)
       ELSE IF st2.exc # "" THEN Result(st2, NoReturn)
       ELSE Result(st2, [none |-> FALSE, id |-> new_id])

\* The list comprehension of _prepare_prop_values, item by item: an item of
\* falsy value is skipped, the others resolve their code with a forced fetch.
RECURSIVE prepare_prop_values(_, _, _, _)
prepare_prop_values(st, prop_values, values, failAt) ==
    IF st.exc # "" \/ Len(prop_values) = 0 THEN Result(st, values)
    ELSE LET item == Head(prop_values) IN
         IF ~py_truthy(item.value)
         THEN prepare_prop_values(st, Tail(prop_values), values, failAt)
         ELSE LET r == get_property_id(st.cache, st.rem, item.name, TRUE,
                                       FailsNext(st, failAt))
              IN prepare_prop_values(
                     After(st, r), Tail(prop_values),
                     Append(values, [cfid |-> IdOf(r), value |-> item.value]), failAt)

\* The arguments are evaluated first: the values are prepared (and the
\* properties fetched) before CustomFields.recordValues is called.
record_property_values(st, linked_type, linked_id, prop_values, failAt) ==
    LET prep == prepare_prop_values(st, prop_values, <<>>, failAt) IN
    IF st.exc # "" THEN st
    ELSE IF prep.st.exc # "" THEN prep.st
    ELSE call_api(prep.st, "CustomFields.recordValues",
                  [linkedtype |-> linked_type, linkedid |-> linked_id,
                   values |-> prep.ret], failAt)

\* `if prop_id:` is false for None and for 0.
delete_property(st, code, failAt) ==
    LET r == get_property_id(st.cache, st.rem, code, TRUE, FailsNext(st, failAt))
        st1 == After(st, r)
    IN IF st.exc # "" THEN st
       ELSE IF st1.exc # "" \/ r.none \/ r.id = 0 THEN st1
       ELSE call_api(st1, "CustomFields.delete", [id |-> r.id], failAt)

RECURSIVE delete_each_property(_, _, _)
delete_each_property(st, props_data, failAt) ==
    IF st.exc # "" \/ Len(props_data) = 0 THEN st
    ELSE LET st1 == delete_property(st, Head(props_data).code, failAt) IN
         delete_each_property(IF st1.exc # "" THEN st1 ELSE wait(st1),
                              Tail(props_data), failAt)

\* delete_all_properties reading the property list without force_fetch=True.
delete_all_properties_unforced(c, rem, failAt) ==
    LET st0 == Start(c, rem)
        raw == get_properties_raw_data(c, rem, FALSE, FailsNext(st0, failAt))
        st1 == After(st0, raw)
    IN IF st1.exc # "" \/ Len(raw.data) = 0 THEN st1
       ELSE delete_each_property(st1, raw.data, failAt)

delete_all_properties(c, rem, failAt) ==
    LET st0 == Start(c, rem)
        raw == get_properties_raw_data(c, rem, TRUE, FailsNext(st0, failAt))
        st1 == After(st0, raw)
    IN IF st1.exc # "" \/ Len(raw.data) = 0 THEN st1
       ELSE delete_each_property(st1, raw.data, failAt)

---------------------------------------------------------------------------
(* Clients and contacts.                                                   *)

CLIENT_TYPE_CORPORATION == "corporation"

CLIENT_TYPE_PERSON == "person"

SEARCH_TYPE_CLIENTS == "Client"

\* third_type_of with every client recorded as a corporation.
third_type_always_client(client_type) == "client"

\* third_type = 'client' if client_type == CLIENT_TYPE_CORPORATION else 'people'
third_type_of(client_type) ==
    IF client_type = CLIENT_TYPE_CORPORATION THEN "client" ELSE "people"

\* A dict is a function on its keys; d.update(e) is e @@ d.
create_client(c, rem, client_type, client_data, new_client_id, failAt) ==
    LET st0 == Start(c, rem)
        third == [type |-> client_type] @@ client_data.third
        params0 == [third |-> third]
        params1 == IF "contact" \in DOMAIN client_data
                   THEN [contact |-> client_data.contact] @@ params0 ELSE params0
        params == IF "address" \in DOMAIN client_data
                  THEN [address |-> client_data.address] @@ params1 ELSE params1
        st1 == call_api(st0, "Client.create", params, failAt)
        st2 == IF "custom" \in DOMAIN client_data
               THEN record_property_values(st1, third_type_of(client_type), new_client_id,
                                           client_data.custom, failAt)
               ELSE st1
    IN IF st1.exc # "" THEN Result(st1, NoReturn)
       ELSE IF st2.exc # "" THEN Result(st2, NoReturn)
       ELSE Result(st2, [none |-> FALSE, id |-> new_client_id])

create_company(c, rem, company_data, new_client_id, failAt) ==
    create_client(c, rem, CLIENT_TYPE_CORPORATION, company_data, new_client_id, failAt)

create_contact(c, rem, contact_data, new_client_id, failAt) ==
    create_client(c, rem, CLIENT_TYPE_PERSON, contact_data, new_client_id, failAt)

\* What is sent as the search 'value': the value itself, or a range.
Scalar(v) == [kind |-> "scalar", scalar |-> v, start |-> PyNone, stop |-> PyNone]

Range(start, stop) == [kind |-> "range", scalar |-> PyNone, start |-> start, stop |-> stop]

\* Only the ValueError of int() is caught; its TypeError propagates.
prepare_search_prop_value(prop_value) ==
    LET conv == py_int(prop_value)
        int_value == [t |-> "int", n |-> conv.n, s |-> <<>>]
    IN IF conv.exc = "ValueError" THEN [exc |-> "", value |-> Scalar(prop_value)]
       ELSE IF conv.exc # "" THEN [exc |-> conv.exc, value |-> Scalar(PyNone)]
       ELSE [exc |-> "", value |-> Range(int_value, int_value)]

\* The property id is resolved (without a forced fetch) before the value is
\* prepared; `found` is the 'result' of the remote system's answer.
search_clients_by_property(c, rem, prop_name, prop_value, found, failAt) ==
    LET st0 == Start(c, rem)
        r == get_property_id(c, rem, prop_name, FALSE, FailsNext(st0, failAt))
        st1 == After(st0, r)
        prep == prepare_search_prop_value(prop_value)
        search == [search_type |-> SEARCH_TYPE_CLIENTS,
                   search_params |->
                      [customfields |-> <<[cfid |-> IdOf(r), value |-> prep.value]>>]]
        st2 == call_api(st1, search.search_type \o ".getList",
                        [search |-> search.search_params], failAt)
    IN IF st1.exc # "" THEN Result(st1, <<>>)
       ELSE IF prep.exc # "" THEN Result([st1 EXCEPT !.exc = prep.exc], <<>>)
       ELSE IF st2.exc # "" THEN Result(st2, <<>>)
       ELSE Result(st2, found)

---------------------------------------------------------------------------
(* Actions of the custom-property and client operations.                   *)

MaxChoices == 3

MaxCustom == 2

MaxFailAt == 2

SeqsUpTo(S, n) == UNION {[1..k -> S] : k \in 0..n}

ChoiceLists == SeqsUpTo({"yes", "no"}, MaxChoices)

\* The custom values of an input: a dict in its order, as a sequence of
\* items of distinct names.
CustomItems ==
    [name : {"vip", "nope"},
     value : {PyStr(<<"y", "e", "s">>), PyBool(FALSE)}]

CustomDicts ==
    {d \in SeqsUpTo(CustomItems, MaxCustom) :
        \A i, j \in 1..Len(d) : i # j => d[i].name # d[j].name}

Acme == [third |-> [name |-> "Acme"]]

ClientDatas ==
    {(IF has_contact THEN [contact |-> [name |-> "Bob"]] ELSE EmptyDict) @@
     (IF has_address THEN [address |-> [town |-> "Paris"]] ELSE EmptyDict) @@ Acme
        : has_contact \in BOOLEAN, has_address \in BOOLEAN}
    \cup {[custom |-> d] @@ Acme : d \in CustomDicts}
    \cup {[custom |-> d, contact |-> [name |-> "Bob"], address |-> [town |-> "Paris"]] @@ Acme
            : d \in CustomDicts}

SearchValues ==
    {PyInt(30), PyFloat(300), PyFloat(305), PyStr(<<"3", "0">>),
     PyStr(<<"3", "0", ".", "5">>), PyStr(<<"a", "b", "c">>), PyNone}

SearchResults == {<<>>, <<101>>, <<101, 102>>}

NewIds == {42}

\* An operation of object self ran to its end: r is its Result.  The record
\* of the operation keeps the remote tables as they were when it started
\* and as they are when it ends.
Ran(self, r, record) ==
    /\ cache' = [cache EXCEPT ![self] = r.st.cache]
    /\ remote' = r.st.rem
    /\ last' = record @@ [self |-> self, calls |-> r.st.calls, exc |-> r.st.exc,
                          ret |-> r.ret, before |-> remote, after |-> r.st.rem]

CreateProperty(self, data_type, choices, new_id, failAt) ==
    Ran(self,
        create_property(cache[self], remote, "vip", "VIP", <<"clients">>, data_type,
                        choices, new_id, failAt),
        [op |-> "create_property", data_type |-> data_type, choices |-> choices])

DeleteAllProperties(self, failAt) ==
    Ran(self, Result(delete_all_properties(cache[self], remote, failAt), NoReturn),
        [op |-> "delete_all_properties", failAt |-> failAt])

CreateCompany(self, company_data, new_client_id, failAt) ==
    Ran(self, create_company(cache[self], remote, company_data, new_client_id, failAt),
        [op |-> "create_company", client_data |-> company_data,
         new_client_id |-> new_client_id])

CreateContact(self, contact_data, new_client_id, failAt) ==
    Ran(self, create_contact(cache[self], remote, contact_data, new_client_id, failAt),
        [op |-> "create_contact", client_data |-> contact_data,
         new_client_id |-> new_client_id])

SearchClientsByProperty(self, prop_name, prop_value, found, failAt) ==
    Ran(self,
        search_clients_by_property(cache[self], remote, prop_name, prop_value, found, failAt),
        [op |-> "search_clients_by_property", prop_name |-> prop_name,
         prop_value |-> prop_value])

\* The custom-property operations of one SellsyClient.
NextProps ==
    \/ RemoteChange
    \/ \E data_type \in {"amount", "select"}, choices \in ChoiceLists,
          new_id \in NewIds, failAt \in 0..MaxFailAt :
          CreateProperty(1, data_type, choices, new_id, failAt)
    \/ \E failAt \in 0..MaxFailAt : DeleteAllProperties(1, failAt)

SpecProps == Init /\ [][NextProps]_vars

\* The client operations of one SellsyClient.
NextClients ==
    \/ RemoteChange
    \/ \E company_data \in ClientDatas, new_client_id \in NewIds, failAt \in 0..MaxFailAt :
          CreateCompany(1, company_data, new_client_id, failAt)
    \/ \E contact_data \in ClientDatas, new_client_id \in NewIds, failAt \in 0..MaxFailAt :
          CreateContact(1, contact_data, new_client_id, failAt)
    \/ \E prop_name \in {"age", "nope"}, prop_value \in SearchValues,
          found \in SearchResults, failAt \in 0..MaxFailAt :
          SearchClientsByProperty(1, prop_name, prop_value, found, failAt)

SpecClients == Init /\ [][NextClients]_vars

---------------------------------------------------------------------------
(* Properties of the custom-property operations (SpecProps) and of the     *)
(* client operations (SpecClients).                                        *)

\* The calls of the last operation to one remote method, in order.
CallsTo(method) ==
    LET to(call) == call.method = method IN SelectSeq(last.calls, to)

\* The calls of the last operation that change the remote system: all but
\* the fetches of tables and the sleeps.
IsMutating(call) ==
    call.method \notin {"time.sleep", "CustomFields.getList", "CustomFields.getGroupsList",
                        "AccountPrefs.getCurrencies", "Accountdatas.getPayMediums",
                        "Accountdatas.getPayDates", "Accountdatas.getTaxes",
                        "Catalogue.getList", "Client.getList", "Document.getOne"}

MutatingCalls == SelectSeq(last.calls, IsMutating)

Methods(calls) == [i \in 1..Len(calls) |-> calls[i].method]

IsCreateClient == last.op \in {"create_company", "create_contact"}

\* What the remote property table resolves a code to, as the table is when
\* the last operation ends.
RemotePropertyId(code) ==
    LET hit(prop) == prop.code = code
        hits == SelectSeq(last.after.properties, hit)
    IN IF Len(hits) = 0 THEN [none |-> TRUE, id |-> 0]
       ELSE [none |-> FALSE, id |-> CharsToNat(hits[1].id)]

\* The Client.create call holds third with the type injected, the contact
\* and the address exactly when the input has them, and never the custom
\* values; the recordValues call, if any, is for the new client's id and type.
C3_CallsWellFormed ==
    LET data == last.client_data
        create == last.calls[1]
        record == CallsTo("CustomFields.recordValues")
        type == IF last.op = "create_company" THEN CLIENT_TYPE_CORPORATION
                ELSE CLIENT_TYPE_PERSON
    IN /\ create.method = "Client.create"
       /\ DOMAIN create.params = DOMAIN data \ {"custom"}
       /\ create.params.third = [name |-> data.third.name, type |-> type]
       /\ \A k \in DOMAIN data \ {"custom", "third"} : create.params[k] = data[k]
       /\ \A i \in 1..Len(record) :
             /\ record[i].params.linkedid = last.new_client_id
             /\ record[i].params.linkedtype =
                   (IF last.op = "create_company" THEN "client" ELSE "people")

TruthyItems(custom) ==
    LET truthy(item) == py_truthy(item.value) IN SelectSeq(custom, truthy)

IsNonNumericStr(v) ==
    v.t = "str" /\ \E i \in 1..Len(v.s) : ~IsDigit(v.s[i]) /\ v.s[i] # "."

\* C4: the search sends a numeric value v as the range {start: v, stop: v},
\* both bounds equal to v, and a non-numeric str unchanged.
C4_NumericValueSentAsItsRange ==
    (last.op = "search_clients_by_property" /\ Len(CallsTo("Client.getList")) = 1)
    => LET sent == CallsTo("Client.getList")[1].params.search.customfields[1].value
           v == last.prop_value
       IN /\ (v.t \in {"int", "float"}) =>
                (sent.kind = "range" /\ py_eq(sent.start, v) /\ py_eq(sent.stop, v))
          /\ IsNonNumericStr(v) => sent = Scalar(v)

\* C5 as stated: with no custom property in the remote system,
\* delete_all_properties issues no remote call.
C5_NoRemoteCallWhenNoProperty ==
    (last.op = "delete_all_properties" /\ Len(last.before.properties) = 0)
    => Len(RemoteCalls(last.calls)) = 0

\* C5 amended: with no custom property in the remote system,
\* delete_all_properties issues exactly one remote call, the forced
\* CustomFields.getList that reads the (empty) list, and nothing else: no
\* delete call, no sleep, and the remote tables are left as they were.
C5_OnlyTheFetchWhenNoProperty ==
    (last.op = "delete_all_properties" /\ Len(last.before.properties) = 0)
    => /\ last.calls = <<Call("CustomFields.getList", PAGINATION_ALL)>>
       /\ last.after = last.before
       /\ last.exc = "" => cache[last.self].properties = Stored(EmptyTable)

\* C5 witness: delete_all_properties ran to its end on an empty remote list.
C5_Witness ==
    /\ last.op = "delete_all_properties" /\ Len(last.before.properties) = 0
    /\ last.exc = "" /\ Len(last.calls) = 1

\* C6: the preferenceslist sent by create_property for a non-empty choice
\* list has one entry per choice in the input's order, exactly one entry
\* with isDefault 'Y' and exactly one with checked 'Y', both the first.
C6_FirstChoiceDefaultAndChecked ==
    (/\ last.op = "create_property" /\ Len(last.choices) > 0
     /\ Len(CallsTo("CustomFields.create")) > 0)
    => LET params == CallsTo("CustomFields.create")[1].params
           list == params.preferenceslist
       IN /\ Len(CallsTo("CustomFields.create")) = 1
          /\ "preferenceslist" \in DOMAIN params
          /\ Len(list) = Len(last.choices)
          /\ \A i \in 1..Len(list) : list[i].value = last.choices[i]
          /\ {i \in 1..Len(list) : list[i].isDefault = "Y"} = {1}
          /\ {i \in 1..Len(list) : list[i].checked = "Y"} = {1}
          /\ \A i \in 1..Len(list) : list[i].isDefault \in {"Y", "N"}
                                     /\ list[i].checked \in {"Y", "N"}

\* C6 witness: a property created with three choices.
C6_Witness ==
    /\ last.op = "create_property" /\ Len(last.choices) = 3
    /\ last.exc = "" /\ Len(CallsTo("CustomFields.create")) = 1

---------------------------------------------------------------------------
(* Documents.                                                              *)

DOCUMENT_TYPE_INVOICE == "invoice"

DOCUMENT_TYPE_PROFORMA == "proforma"

DOCUMENT_TYPE_CREDIT_NOTE == "creditnote"

Raise(st, exc) == [st EXCEPT !.exc = exc]

\* The keys a row of type 'once' is read for, in the order of the dict
\* literal that reads them: a missing one raises KeyError.
RequiredRowKeys == {"title", "description", "unit_price", "quantity", "tax_rate"}

\* The dict a row of type 'once' is prepared into, its optional keys added
\* by prepared_row.update.
prepared_row(row_data, row_taxid) ==
    (IF "comment" \in DOMAIN row_data
     THEN [row_comment |-> row_data.comment] ELSE EmptyDict)
    @@ (IF "discount" \in DOMAIN row_data
        THEN [row_discount |-> row_data.discount,
              row_discountUnit |-> row_data.discount_unit]
        ELSE EmptyDict)
    @@ [row_type |-> "once", row_name |-> row_data.title,
        row_notes |-> row_data.description, row_unitAmount |-> row_data.unit_price,
        row_qt |-> row_data.quantity, row_taxid |-> row_taxid]

\* `if row_type and row_type != 'once'`, row_type being
\* row_data.get('row_type', None).
is_other_row_type(row_data) ==
    "row_type" \in DOMAIN row_data /\ row_data.row_type \notin {"", "once"}

\* The row made once self._get_tax_id(row_data['tax_rate']) has answered.
row_with_tax(st, row_data, tax) ==
    IF tax.exc # "" THEN Result(After(st, tax), EmptyDict)
    ELSE IF is_other_row_type(row_data)
         THEN Result(After(st, tax), [row_taxid |-> IdOf(tax)] @@ row_data)
    ELSE IF "discount" \in DOMAIN row_data /\ "discount_unit" \notin DOMAIN row_data
         THEN Result(Raise(After(st, tax), "KeyError"), EmptyDict)
    ELSE Result(After(st, tax), prepared_row(row_data, IdOf(tax)))

\* One turn of the loop of _prepare_document_rows: a key the row is read
\* for and lacks raises KeyError before the tax id is resolved.
prepare_document_row(st, row_data, failAt) ==
    IF ~((IF is_other_row_type(row_data) THEN {"tax_rate"} ELSE RequiredRowKeys)
            \subseteq DOMAIN row_data)
    THEN Result(Raise(st, "KeyError"), EmptyDict)
    ELSE row_with_tax(st, row_data,
                      get_tax_id(st.cache, st.rem, row_data.tax_rate, FALSE,
                                 FailsNext(st, failAt)))

RECURSIVE prepare_each_row(_, _, _, _)
prepare_each_row(st, rows_data, prepared_rows, failAt) ==
    IF st.exc # "" \/ Len(rows_data) = 0 THEN Result(st, prepared_rows)
    ELSE LET row == prepare_document_row(st, Head(rows_data), failAt) IN
         prepare_each_row(row.st, Tail(rows_data), Append(prepared_rows, row.ret), failAt)

SumRow == [row_type |-> "sum"]

\* _prepare_document_rows without its closing sum row.
prepare_document_rows_no_sum(st, rows_data, append_sum_row, failAt) ==
    prepare_each_row(st, rows_data, <<>>, failAt)

prepare_document_rows(st, rows_data, append_sum_row, failAt) ==
    LET rows == prepare_each_row(st, rows_data, <<>>, failAt) IN
    IF rows.st.exc # "" THEN Result(rows.st, <<>>)
    ELSE IF append_sum_row THEN Result(rows.st, Append(rows.ret, SumRow))
    ELSE rows


\* The comprehension over payment_modes: each code resolved in turn,
\* without a forced fetch.
RECURSIVE payment_mode_ids(_, _, _, _)
payment_mode_ids(st, payment_modes, ids, failAt) ==
    IF st.exc # "" \/ Len(payment_modes) = 0 THEN Result(st, ids)
    ELSE LET r == get_payment_mode_id(st.cache, st.rem, Head(payment_modes), FALSE,
                                      FailsNext(st, failAt))
         IN payment_mode_ids(After(st, r), Tail(payment_modes), Append(ids, IdOf(r)), failAt)

\* What _create_document raises before it builds anything or calls anything:
\* the ValueError of a missing client_id or rows, the exception of
\* int(date), the KeyError of document_data['subject'] (read when 'title' is
\* in the input) and of document_data['discount_unit'].
document_params_exc(document_data) ==
    IF "client_id" \notin DOMAIN document_data THEN "ValueError"
    ELSE IF "rows" \notin DOMAIN document_data THEN "ValueError"
    ELSE IF "date" \in DOMAIN document_data /\ py_int(document_data.date).exc # ""
         THEN py_int(document_data.date).exc
    ELSE IF "title" \in DOMAIN document_data /\ "subject" \notin DOMAIN document_data
         THEN "KeyError"
    ELSE IF "discount" \in DOMAIN document_data /\ "discount_unit" \notin DOMAIN document_data
         THEN "KeyError"
    ELSE ""

\* The document_params dict before the payment modes: each optional key is
\* added when its source key is in the input; 'subject' is added when
\* 'title' is in the input.
document_params(document_type, document_data) ==
    LET d == document_data
        On(key, params) == IF key \in DOMAIN d THEN params ELSE EmptyDict
    IN On("tags", [tags |-> d.tags])
       @@ On("discount", [globalDiscount |-> d.discount,
                          globalDiscountUnit |-> d.discount_unit])
       @@ On("notes", [notes |-> d.notes])
       @@ On("title", [subject |-> d.subject])
       @@ On("date", [displayedDate |-> py_int(d.date).n \div 10])
       @@ On("number", [ident |-> d.number])
       @@ On("parent_id", [parentId |-> d.parent_id])
       @@ [doctype |-> document_type, thirdid |-> d.client_id]

get_document_by_id(st, document_type, document_id, failAt) ==
    call_api(st, "Document.getOne", [doctype |-> document_type, docid |-> document_id],
             failAt)

\* The running state of _create_document: the client's state, the resolved
\* payment modes, the prepared rows, and the caller's document_data as the
\* method leaves it.
document_begin(st, document_data) ==
    [st |-> IF document_params_exc(document_data) # ""
            THEN Raise(st, document_params_exc(document_data))
            ELSE st,
     modes |-> <<>>, rows |-> <<>>, data_after |-> document_data]

modes_resolved(ctx, r) == [ctx EXCEPT !.st = r.st, !.modes = r.ret]

with_payment_modes(ctx, d, failAt) ==
    IF ctx.st.exc # "" \/ "payment_modes" \notin DOMAIN d THEN ctx
    ELSE modes_resolved(ctx, payment_mode_ids(ctx.st, d.payment_modes, <<>>, failAt))

rows_prepared(ctx, r) == [ctx EXCEPT !.st = r.st, !.rows = r.ret]

with_rows(ctx, d, failAt) ==
    IF ctx.st.exc # "" THEN ctx
    ELSE rows_prepared(ctx, prepare_document_rows(ctx.st, d.rows, TRUE, failAt))

\* paydate_params is the input's own 'paydate' dict: the assignment to
\* paydate_params['id'] writes the resolved id into the caller's data.
paydate_resolved(ctx, d, r) ==
    [ctx EXCEPT !.st = After(@, r),
                !.data_after = IF r.exc # "" THEN @
                               ELSE [paydate |-> [id |-> ResolvedId(r)] @@ d.paydate] @@ d]

with_paydate(ctx, d, failAt) ==
    IF ctx.st.exc # "" \/ "paydate" \notin DOMAIN d THEN ctx
    ELSE IF "id" \notin DOMAIN d.paydate THEN [ctx EXCEPT !.st = Raise(@, "KeyError")]
    ELSE paydate_resolved(ctx, d,
                          payment_date_id_of(ctx.st.cache, ctx.st.rem, d.paydate.id,
                                              FALSE, FailsNext(ctx.st, failAt)))

\* The params of Document.create.
create_params(ctx, d, document_type) ==
    (IF "paydate" \in DOMAIN d THEN [paydate |-> ctx.data_after.paydate] ELSE EmptyDict)
    @@ [document |-> (IF "payment_modes" \in DOMAIN d
                      THEN [payMediums |-> ctx.modes] ELSE EmptyDict)
                     @@ document_params(document_type, d),
        row |-> ctx.rows]

document_created(ctx, d, document_type, failAt) ==
    IF ctx.st.exc # "" THEN ctx
    ELSE [ctx EXCEPT !.st = call_api(@, "Document.create",
                                     create_params(ctx, d, document_type), failAt)]

\* _create_document without the recording of the custom values.
with_custom_skipped(ctx, d, new_document_id, failAt) == ctx

with_custom(ctx, d, new_document_id, failAt) ==
    IF ctx.st.exc # "" \/ "custom" \notin DOMAIN d THEN ctx
    ELSE [ctx EXCEPT !.st = record_property_values(@, "document", new_document_id,
                                                   d.custom, failAt)]

document_fetched(ctx, document_type, new_document_id, failAt) ==
    IF ctx.st.exc # "" THEN ctx
    ELSE [ctx EXCEPT !.st = get_document_by_id(@, document_type, new_document_id, failAt)]

\* The document Document.getOne answers a request with.
document_of(params) == [doctype |-> params.doctype, id |-> params.docid]

\* return new_document_id, self.get_document_by_id(...): the id and the
\* answer of the Document.getOne just made.
document_returned(ctx, new_document_id) ==
    [st |-> ctx.st, data_after |-> ctx.data_after,
     ret |-> IF ctx.st.exc # "" THEN NoReturn
             ELSE [none |-> FALSE, id |-> new_document_id,
                   doc |-> document_of(ctx.st.calls[Len(ctx.st.calls)].params)]]

\* _create_document, its steps in the order of the source.
create_document(st, document_type, document_data, new_document_id, failAt) ==
    document_returned(
        document_fetched(
            with_custom(
                document_created(
                    with_paydate(
                        with_rows(
                            with_payment_modes(
                                document_begin(st, document_data),
                                document_data, failAt),
                            document_data, failAt),
                        document_data, failAt),
                    document_data, document_type, failAt),
                document_data, new_document_id, failAt),
            document_type, new_document_id, failAt),
        new_document_id)

---------------------------------------------------------------------------
(* Actions of the document operations.                                     *)

MaxRows == 2

OnceRow ==
    [title |-> "T", description |-> "D", unit_price |-> 100, quantity |-> 2,
     tax_rate |-> PyInt(20)]

\* The rows callers pass: content rows (with and without the optional
\* keys), a row of another type (a sum row), and a row that lacks a key.
RowDatas ==
    { OnceRow,
      [row_type |-> "once", discount |-> 5, discount_unit |-> "percent",
       comment |-> "C"] @@ OnceRow,
      [row_type |-> "sum", tax_rate |-> PyFloat(55)],
      [title |-> "T", tax_rate |-> PyInt(20)] }

RowLists == SeqsUpTo(RowDatas, MaxRows)

PrepareDocumentRows(self, rows_data, append_sum_row, failAt) ==
    Ran(self,
        prepare_document_rows(Start(cache[self], remote), rows_data, append_sum_row, failAt),
        [op |-> "prepare_document_rows", rows_data |-> rows_data,
         append_sum_row |-> append_sum_row])

\* The row preparation of one SellsyClient.
NextRows ==
    \/ RemoteChange
    \/ \E rows_data \in RowLists, append_sum_row \in BOOLEAN, failAt \in 0..1 :
          PrepareDocumentRows(1, rows_data, append_sum_row, failAt)

SpecRows == Init /\ [][NextRows]_vars


BaseDocument == [client_id |-> 7, rows |-> <<>>]

\* The document_data callers pass: the required keys alone, each optional
\* key, the inputs that lack a required key or half of a pair, and a date
\* that is no integer.
DocumentDatas ==
    { BaseDocument,
      [client_id |-> 7, rows |-> <<OnceRow>>],
      [client_id |-> 7],
      [rows |-> <<>>],
      [subject |-> "S"] @@ BaseDocument,
      [title |-> "T"] @@ BaseDocument,
      [title |-> "T", subject |-> "S"] @@ BaseDocument,
      [discount |-> 5, discount_unit |-> "percent"] @@ BaseDocument,
      [discount |-> 5] @@ BaseDocument,
      [parent_id |-> 3, number |-> "F-1", date |-> PyInt(1500), notes |-> "N",
       tags |-> "a,b"] @@ BaseDocument,
      [date |-> PyStr(<<"a", "b", "c">>)] @@ BaseDocument,
      [payment_modes |-> <<"check", "cb">>] @@ BaseDocument,
      [paydate |-> [id |-> StrId("30days"), custom |-> 0]] @@ BaseDocument,
      [custom |-> <<[name |-> "vip", value |-> PyStr(<<"y", "e", "s">>)]>>]
          @@ BaseDocument }

CreateDocument(self, document_data, new_document_id, failAt) ==
    LET r == create_document(Start(cache[self], remote), DOCUMENT_TYPE_INVOICE,
                             document_data, new_document_id, failAt)
    IN Ran(self, r,
           [op |-> "create_document", document_data |-> document_data,
            new_document_id |-> new_document_id, data_after |-> r.data_after])

\* The document creation of one SellsyClient against a remote account that
\* other users change.
NextDocs ==
    \/ RemoteChange
    \/ \E document_data \in DocumentDatas, new_document_id \in NewIds,
          failAt \in 0..MaxFailAt :
          CreateDocument(1, document_data, new_document_id, failAt)

SpecDocs == Init /\ [][NextDocs]_vars

---------------------------------------------------------------------------
(* Claims about the document operations.                                   *)

IsRowsPrepared ==
    /\ last.op = "prepare_document_rows"
    /\ last.append_sum_row
    /\ last.exc = ""

IsSumEntry(row) == "row_type" \in DOMAIN row /\ row.row_type = "sum"

SumEntries(rows) == Len(SelectSeq(rows, IsSumEntry))

\* C7 as stated: whenever _prepare_document_rows returns with
\* append_sum_row=True, its output has length len(input)+1 and holds exactly
\* one 'sum' entry.
C7_ExactlyOneSumEntry ==
    IsRowsPrepared =>
        /\ Len(last.ret) = Len(last.rows_data) + 1
        /\ SumEntries(last.ret) = 1

\* C7 amended: whenever _prepare_document_rows returns with
\* append_sum_row=True, its output has length len(input)+1, its i-th entry is
\* made from the i-th input row (a row of another type is copied with its
\* row_taxid, a content row becomes a 'once' row with the input's title),
\* its last entry is the one synthesized {'row_type': 'sum'}, and it holds one
\* 'sum' entry more than the input holds rows of row_type 'sum'.
C7_OneTrailingSynthesizedSum ==
    IsRowsPrepared =>
        /\ Len(last.ret) = Len(last.rows_data) + 1
        /\ last.ret[Len(last.ret)] = SumRow
        /\ \A i \in 1..Len(last.rows_data) :
              LET row_data == last.rows_data[i]
                  row == last.ret[i]
              IN /\ "row_taxid" \in DOMAIN row
                 /\ IF is_other_row_type(row_data)
                    THEN \A key \in DOMAIN row_data : row[key] = row_data[key]
                    ELSE row.row_type = "once" /\ row.row_name = row_data.title
        /\ SumEntries(last.ret) = 1 + SumEntries(last.rows_data)

\* Two rows were prepared, one of them a row of row_type 'sum'.
C7_Witness ==
    /\ IsRowsPrepared
    /\ Len(last.rows_data) = 2
    /\ SumEntries(last.rows_data) = 1
    /\ SumEntries(last.ret) = 2

IsDocumentSent == last.op = "create_document" /\ Len(CallsTo("Document.create")) = 1

DocumentSent == CallsTo("Document.create")[1].params

\* 'title' is no key of the documented input: the code tests it where it
\* reads 'subject'.
IsSupportedOnly(document_data) ==
    /\ {"client_id", "rows"} \subseteq DOMAIN document_data
    /\ "title" \notin DOMAIN document_data
    /\ "discount" \in DOMAIN document_data => "discount_unit" \in DOMAIN document_data
    /\ "date" \in DOMAIN document_data => py_int(document_data.date).exc = ""

\* C8: in _create_document each optional key of document_data is in the
\* Document.create params if and only if it is in the input (subject ->
\* subject among them), and an input of supported keys does not raise before
\* the call is made.
C8_OptionalKeysSentIffPresent ==
    last.op = "create_document" =>
        /\ IsDocumentSent =>
              LET document == DocumentSent.document
                  data == last.document_data
                  Same(key, param) == (key \in DOMAIN data) <=> (param \in DOMAIN document)
              IN /\ Same("parent_id", "parentId")
                 /\ Same("number", "ident")
                 /\ Same("date", "displayedDate")
                 /\ Same("subject", "subject")
                 /\ Same("notes", "notes")
                 /\ Same("discount", "globalDiscount")
                 /\ Same("discount", "globalDiscountUnit")
                 /\ Same("tags", "tags")
                 /\ Same("payment_modes", "payMediums")
                 /\ ("paydate" \in DOMAIN data) <=> ("paydate" \in DOMAIN DocumentSent)
        /\ IsSupportedOnly(last.document_data) => last.exc # "KeyError"

\* The ids a resolver gives on the remote tables as they were when the
\* operation started.
FreshPaymentModeId(code) == IdOf(get_payment_mode_id(NoCache, last.before, code, TRUE, FALSE))

FreshPaymentDateId(value) ==
    ResolvedId(payment_date_id_of(NoCache, last.before, value, TRUE, FALSE))

\* C10: the payment-mode ids and the pay-date id that _create_document sends
\* in Document.create are the ids of the remote tables at that moment, never
\* those of a table cached before the remote changed.
C10_SentIdsResolvedFromCurrentRemote ==
    IsDocumentSent =>
        /\ "payment_modes" \in DOMAIN last.document_data =>
              \A i \in 1..Len(last.document_data.payment_modes) :
                 DocumentSent.document.payMediums[i]
                    = FreshPaymentModeId(last.document_data.payment_modes[i])
        /\ "paydate" \in DOMAIN last.document_data =>
              DocumentSent.paydate.id = FreshPaymentDateId(last.document_data.paydate.id)

---------------------------------------------------------------------------
(* Two SellsyClient objects of one process.  Every write of a table is     *)
(* `self._<table>_raw_data = ...`: it sets the attribute of the object,    *)
(* and the class attribute stays None.                                     *)

\* Two client objects reading the same reference table.
NextShared ==
    \/ RemoteChange
    \/ \E self \in Instances, table \in ReferenceTables, force_fetch \in BOOLEAN,
          fail \in BOOLEAN :
          /\ \A other \in Instances : OnlyTable(other, table)
          /\ GetRawData(self, table, force_fetch, fail)

SpecShared == Init /\ [][NextShared]_vars

\* C11: once one SellsyClient has fetched a (non-empty) reference table, a
\* non-forced read of that table by another SellsyClient of the process
\* returns that table and issues no remote call.
C11_FetchedTableServedToOtherInstances ==
    (/\ last.op = "get_raw_data" /\ ~last.force_fetch
     /\ \E other \in Instances \ {last.self} :
           cache[other][last.table].fetched /\ Len(cache[other][last.table].data) > 0)
    => /\ last.calls = <<>>
       /\ \E other \in Instances \ {last.self} : last.data = cache[other][last.table].data

---------------------------------------------------------------------------
(* Document statuses and payments.                                         *)

\* constants.VALID_DOCUMENT_STATUSES: the module is not part of the sources
\* at hand; the operation only tests membership in it.
VALID_DOCUMENT_STATUSES == {"draft", "sent", "paid", "cancelled"}

\* _update_document_status without its validation.
update_document_status_unchecked(c, rem, document_type, document_id, new_status, failAt) ==
    Result(call_api(Start(c, rem), "Document.updateStep",
                    [docid |-> document_id,
                     document |-> [doctype |-> document_type, step |-> new_status]],
                    failAt),
           NoReturn)

update_document_status(c, rem, document_type, document_id, new_status, failAt) ==
    IF new_status \notin VALID_DOCUMENT_STATUSES
    THEN Result(Raise(Start(c, rem), "ValueError"), NoReturn)
    ELSE Result(call_api(Start(c, rem), "Document.updateStep",
                         [docid |-> document_id,
                          document |-> [doctype |-> document_type, step |-> new_status]],
                         failAt),
                NoReturn)

update_creditnote_status(c, rem, creditnote_id, new_status, failAt) ==
    update_document_status(c, rem, DOCUMENT_TYPE_CREDIT_NOTE, creditnote_id, new_status,
                           failAt)

update_proforma_status(c, rem, proforma_id, new_status, failAt) ==
    update_document_status(c, rem, DOCUMENT_TYPE_PROFORMA, proforma_id, new_status, failAt)

update_invoice_status(c, rem, invoice_id, new_status, failAt) ==
    update_document_status(c, rem, DOCUMENT_TYPE_INVOICE, invoice_id, new_status, failAt)

\* The params of create_payment before the branch on invoice_id.
payment_params(payment_data, medium) ==
    (IF "deadline_id" \in DOMAIN payment_data
     THEN [deadlineid |-> <<payment_data.deadline_id>>] ELSE EmptyDict)
    @@ (IF "reference" \in DOMAIN payment_data
        THEN [ident |-> payment_data.reference] ELSE EmptyDict)
    @@ [date |-> payment_data.date, amount |-> payment_data.amount, medium |-> medium]

\* `if invoice_id:` where invoice_id = payment_data.get('invoice_id', None):
\* an id of 0 is falsy as an absent one.
has_invoice_id(payment_data) ==
    "invoice_id" \in DOMAIN payment_data /\ payment_data.invoice_id # 0

\* create_payment with the document payment sent un-nested.
payment_sent_flat(st, payment_data, document_type, medium, new_payment_id, failAt) ==
    LET params == payment_params(payment_data, medium) IN
    IF st.exc # "" THEN Result(st, NoReturn)
    ELSE Result(call_api(st,
                         IF has_invoice_id(payment_data) THEN "Document.createPayment"
                         ELSE "Payments.create",
                         IF has_invoice_id(payment_data)
                         THEN [doctype |-> document_type,
                               docid |-> payment_data.invoice_id] @@ params
                         ELSE params,
                         failAt),
                [none |-> FALSE, id |-> new_payment_id])

\* The call of create_payment once the payment mode is resolved.
payment_sent(st, payment_data, document_type, medium, new_payment_id, failAt) ==
    LET params == payment_params(payment_data, medium) IN
    IF st.exc # "" THEN Result(st, NoReturn)
    ELSE Result(call_api(st,
                         IF has_invoice_id(payment_data) THEN "Document.createPayment"
                         ELSE "Payments.create",
                         IF has_invoice_id(payment_data)
                         THEN [payment |-> [doctype |-> document_type,
                                            docid |-> payment_data.invoice_id] @@ params]
                         ELSE params,
                         failAt),
                [none |-> FALSE, id |-> new_payment_id])

payment_mode_resolved(st, payment_data, document_type, r, new_payment_id, failAt) ==
    payment_sent(After(st, r), payment_data, document_type, IdOf(r), new_payment_id, failAt)

payment_returned(r) ==
    IF r.st.exc # "" THEN Result(r.st, NoReturn) ELSE r

create_payment(c, rem, payment_data, document_type, new_payment_id, failAt) ==
    IF ~({"date", "amount", "mode"} \subseteq DOMAIN payment_data)
    THEN Result(Raise(Start(c, rem), "KeyError"), NoReturn)
    ELSE payment_returned(
            payment_mode_resolved(
                Start(c, rem), payment_data, document_type,
                get_payment_mode_id(c, rem, payment_data.mode, FALSE,
                                    FailsNext(Start(c, rem), failAt)),
                new_payment_id, failAt))

StatusOperations == {"update_creditnote_status", "update_proforma_status",
                     "update_invoice_status"}

DocumentTypeOf(op) ==
    CASE op = "update_creditnote_status" -> DOCUMENT_TYPE_CREDIT_NOTE
      [] op = "update_proforma_status" -> DOCUMENT_TYPE_PROFORMA
      [] op = "update_invoice_status" -> DOCUMENT_TYPE_INVOICE

\* The statuses callers pass: the valid ones and two that are not.
Statuses == VALID_DOCUMENT_STATUSES \cup {"", "unknown"}

DocumentIds == {41, 42}

UpdateStatus(self, op, document_id, new_status, failAt) ==
    Ran(self,
        CASE op = "update_creditnote_status" ->
                update_creditnote_status(cache[self], remote, document_id, new_status, failAt)
          [] op = "update_proforma_status" ->
                update_proforma_status(cache[self], remote, document_id, new_status, failAt)
          [] op = "update_invoice_status" ->
                update_invoice_status(cache[self], remote, document_id, new_status, failAt),
        [op |-> op, document_id |-> document_id, new_status |-> new_status])

BasePayment == [date |-> 1500, amount |-> 100, mode |-> "check"]

\* The payment_data callers pass: with and without an invoice id (0 among
\* them), with the optional keys, with an unknown mode, with a key missing.
PaymentDatas ==
    { BasePayment,
      [invoice_id |-> 17] @@ BasePayment,
      [invoice_id |-> 0] @@ BasePayment,
      [invoice_id |-> 17, reference |-> "R-1", deadline_id |-> 5] @@ BasePayment,
      [reference |-> "R-1", deadline_id |-> 5] @@ BasePayment,
      [invoice_id |-> 17, date |-> 1500, amount |-> 100, mode |-> "tip"],
      [invoice_id |-> 17, date |-> 1500, amount |-> 100] }

CreatePayment(self, payment_data, new_payment_id, failAt) ==
    Ran(self,
        create_payment(cache[self], remote, payment_data, DOCUMENT_TYPE_INVOICE,
                       new_payment_id, failAt),
        [op |-> "create_payment", payment_data |-> payment_data,
         new_payment_id |-> new_payment_id])

\* The status updates and the payments of one SellsyClient.
NextBilling ==
    \/ RemoteChange
    \/ \E op \in StatusOperations, document_id \in DocumentIds, new_status \in Statuses,
          failAt \in 0..1 :
          UpdateStatus(1, op, document_id, new_status, failAt)
    \/ \E payment_data \in PaymentDatas, new_payment_id \in NewIds, failAt \in 0..MaxFailAt :
          CreatePayment(1, payment_data, new_payment_id, failAt)

SpecBilling == Init /\ [][NextBilling]_vars

---------------------------------------------------------------------------
(* Claims about statuses and payments.                                     *)

IsStatusUpdate == last.op \in StatusOperations

\* C12: update_creditnote_status, update_proforma_status and
\* update_invoice_status raise ValueError without any remote call when the
\* new status is not a valid document status, and otherwise issue exactly
\* one Document.updateStep call carrying the document id, the document type
\* of the operation and that status.
C12_InvalidStatusRaisesBeforeAnyCall ==
    IsStatusUpdate =>
        IF last.new_status \notin VALID_DOCUMENT_STATUSES
        THEN last.exc = "ValueError" /\ last.calls = <<>>
        ELSE /\ last.exc \in {"", "SellsyError"}
             /\ last.calls =
                   <<Call("Document.updateStep",
                          [docid |-> last.document_id,
                           document |-> [doctype |-> DocumentTypeOf(last.op),
                                         step |-> last.new_status]])>>

\* C12 witness: a proforma status update refused for its status.
C12_Witness ==
    /\ last.op = "update_proforma_status"
    /\ last.new_status = "unknown"
    /\ last.exc = "ValueError" /\ last.calls = <<>>

IsPayment ==
    /\ last.op = "create_payment"
    /\ {"date", "amount", "mode"} \subseteq DOMAIN last.payment_data

\* The payload create_payment is to send, its medium left aside.
IsPaymentPayload(params, data) ==
    /\ params.date = data.date /\ params.amount = data.amount
    /\ "medium" \in DOMAIN params
    /\ ("ident" \in DOMAIN params) = ("reference" \in DOMAIN data)
    /\ "ident" \in DOMAIN params => params.ident = data.reference
    /\ ("deadlineid" \in DOMAIN params) = ("deadline_id" \in DOMAIN data)
    /\ "deadlineid" \in DOMAIN params => params.deadlineid = <<data.deadline_id>>

\* C14 as stated: create_payment issues exactly one remote call,
\* Document.createPayment with the payload nested under 'payment' when the
\* payment data supplies an invoice id, Payments.create with the payload
\* un-nested and without doctype/docid when it supplies none.
C14_ExactlyOneRemoteCall ==
    IsPayment =>
        /\ Len(RemoteCalls(last.calls)) = 1
        /\ LET call == last.calls[1] IN
           IF "invoice_id" \in DOMAIN last.payment_data
           THEN /\ call.method = "Document.createPayment"
                /\ DOMAIN call.params = {"payment"}
                /\ IsPaymentPayload(call.params.payment, last.payment_data)
                /\ call.params.payment.docid = last.payment_data.invoice_id
           ELSE /\ call.method = "Payments.create"
                /\ IsPaymentPayload(call.params, last.payment_data)
                /\ DOMAIN call.params \cap {"doctype", "docid", "payment"} = {}

\* C14 amended: create_payment issues exactly one mutating call, its last
\* call, preceded by at most one Accountdatas.getPayMediums (the non-forced
\* lookup of the payment mode) and by nothing else; a failed lookup ends the
\* operation without the mutating call.  The call is
\* Document.createPayment with the payload (date, amount, medium, optional
\* ident and deadlineid, doctype, docid) nested under the single key
\* 'payment' when the invoice id is present and truthy, and Payments.create
\* with the payload un-nested, without doctype/docid, when the invoice id is
\* absent or falsy (0).
C14_OneMutatingCallAfterTheLookup ==
    IsPayment =>
        LET n == Len(last.calls)
            fetched == n > 0 /\ last.calls[1].method = "Accountdatas.getPayMediums"
        IN /\ n \in {1, 2}
           /\ (n = 2) => fetched
           /\ (fetched /\ n = 1) => last.exc = "SellsyError"
           /\ last.exc = "" => Len(MutatingCalls) = 1
           /\ Len(MutatingCalls) <= 1
           /\ Len(MutatingCalls) = 1 =>
                 LET call == last.calls[n] IN
                 /\ IsMutating(call)
                 /\ IF has_invoice_id(last.payment_data)
                    THEN /\ call.method = "Document.createPayment"
                         /\ DOMAIN call.params = {"payment"}
                         /\ IsPaymentPayload(call.params.payment, last.payment_data)
                         /\ call.params.payment.docid = last.payment_data.invoice_id
                         /\ call.params.payment.doctype = DOCUMENT_TYPE_INVOICE
                    ELSE /\ call.method = "Payments.create"
                         /\ IsPaymentPayload(call.params, last.payment_data)
                         /\ DOMAIN call.params \cap {"doctype", "docid", "payment"} = {}

\* C14 witness: a payment of an invoice sent nested, in one call, by an
\* object that already held the payment modes.
C14_Witness ==
    /\ IsPayment /\ last.exc = ""
    /\ Len(last.calls) = 1
    /\ last.calls[1].method = "Document.createPayment"
    /\ "deadlineid" \in DOMAIN last.calls[1].params.payment

---------------------------------------------------------------------------
(* Claims about the calls of _create_document.                             *)

IsDocumentCall(call) ==
    call.method \in {"Document.create", "CustomFields.recordValues", "Document.getOne"}

\* C13: a successful _create_document issues Document.create, then
\* CustomFields.recordValues exactly when the input has 'custom', then
\* Document.getOne for the id Document.create returned, in this order (the
\* calls before Document.create being reads of reference tables), and
\* returns that id with the document that Document.getOne returned; an
\* input without 'client_id' or 'rows' raises ValueError with no remote
\* call.
C13_CreateThenRecordThenFetch ==
    last.op = "create_document" =>
        /\ (last.exc = "" /\ "custom" \in DOMAIN last.document_data) =>
              Methods(SelectSeq(last.calls, IsDocumentCall))
                 = <<"Document.create", "CustomFields.recordValues", "Document.getOne">>
        /\ (last.exc = "" /\ "custom" \notin DOMAIN last.document_data) =>
              Methods(SelectSeq(last.calls, IsDocumentCall))
                 = <<"Document.create", "Document.getOne">>
        /\ last.exc = "" =>
              LET fetch == last.calls[Len(last.calls)]
                  record == CallsTo("CustomFields.recordValues")
              IN /\ fetch = Call("Document.getOne",
                                 [doctype |-> DOCUMENT_TYPE_INVOICE,
                                  docid |-> last.new_document_id])
                 /\ last.ret = [none |-> FALSE, id |-> last.new_document_id,
                                doc |-> document_of(fetch.params)]
                 /\ \A i \in 1..Len(record) :
                       /\ record[i].params.linkedid = last.new_document_id
                       /\ record[i].params.linkedtype = "document"
                 /\ \A i \in 1..Len(last.calls) :
                       last.calls[i].method = "Document.create" =>
                          \A j \in 1..(i - 1) : ~IsMutating(last.calls[j])
        /\ ~({"client_id", "rows"} \subseteq DOMAIN last.document_data) =>
              last.exc = "ValueError" /\ last.calls = <<>>

\* C13 witness: a document created with custom values, recorded and fetched.
C13_Witness ==
    /\ last.op = "create_document" /\ last.exc = ""
    /\ "custom" \in DOMAIN last.document_data
    /\ Len(CallsTo("CustomFields.recordValues")) = 1
    /\ last.calls[Len(last.calls)].method = "Document.getOne"

---------------------------------------------------------------------------
(* The webhook (events.py).  The 'notif' form field is a text or is        *)
(* missing; json.loads is modelled as a parser of the JSON texts that can  *)
(* be written with JsonChars: numbers, strings and arrays.                 *)

JsonChars == {"1", "a", "\"", "[", "]", ","}

\* The index after the string that opens at s[i] (s[i] being the quote), 0
\* when it is not closed.
RECURSIVE json_string_end(_, _)
json_string_end(s, i) ==
    IF i + 1 > Len(s) THEN 0
    ELSE IF s[i + 1] = "\"" THEN i + 2
    ELSE json_string_end(s, i + 1)

RECURSIVE json_number_end(_, _)
json_number_end(s, i) ==
    IF i + 1 <= Len(s) /\ s[i + 1] = "1" THEN json_number_end(s, i + 1) ELSE i + 1

\* The index after the JSON value that starts at s[i], 0 when none does.
RECURSIVE json_value_end(_, _)
RECURSIVE json_elements_end(_, _)
json_value_end(s, i) ==
    IF i > Len(s) THEN 0
    ELSE CASE s[i] = "1" -> json_number_end(s, i)
           [] s[i] = "\"" -> json_string_end(s, i)
           [] s[i] = "[" -> IF i + 1 <= Len(s) /\ s[i + 1] = "]" THEN i + 2
                            ELSE json_elements_end(s, i + 1)
           [] OTHER -> 0

\* The index after the "]" that closes the array whose next element starts
\* at s[i], 0 when the array is malformed.
json_elements_end(s, i) ==
    LET n == json_value_end(s, i) IN
    IF n = 0 \/ n > Len(s) THEN 0
    ELSE IF s[n] = "]" THEN n + 1
    ELSE IF s[n] = "," THEN json_elements_end(s, n + 1)
    ELSE 0

\* json.loads(raw_message): TypeError for None, JSONDecodeError (a
\* ValueError) for a text that is no JSON document.
json_loads(raw_message) ==
    IF raw_message.t # "str" THEN "TypeError"
    ELSE IF json_value_end(raw_message.s, 1) = Len(raw_message.s) + 1 THEN ""
    ELSE "JSONDecodeError"

\* handle_webhook with `except ValueError` in place of `except Exception`.
handle_webhook_value_errors_only(notif) ==
    LET exc == json_loads(notif) IN
    IF exc = "JSONDecodeError" THEN [exc |-> "", ret |-> "None"]
    ELSE IF exc # "" THEN [exc |-> exc, ret |-> "None"]
    ELSE [exc |-> "", ret |-> "SellsyEvent"]

\* handle_webhook(request), notif being request.POST.get('notif'): None
\* when the field is missing.
handle_webhook(notif) ==
    LET exc == json_loads(notif) IN
    IF exc # "" THEN [exc |-> "", ret |-> "None"]
    ELSE [exc |-> "", ret |-> "SellsyEvent"]

MaxMessageLen == 3

Messages == {PyNone} \cup {PyStr(s) : s \in SeqsUpTo(JsonChars, MaxMessageLen)}

HandleWebhook(notif) ==
    /\ last' = [op |-> "handle_webhook", notif |-> notif] @@ handle_webhook(notif)
    /\ UNCHANGED <<remote, cache>>

\* The webhook view, called with any 'notif'.
NextWebhook == \E notif \in Messages : HandleWebhook(notif)

SpecWebhook == Init /\ [][NextWebhook]_vars

\* C15: handle_webhook lets no exception escape; it returns None when
\* 'notif' is missing or is no JSON text, and a SellsyEvent when it is one.
C15_NoExceptionEscapesTheWebhook ==
    last.op = "handle_webhook" =>
        /\ last.exc = ""
        /\ last.ret \in {"None", "SellsyEvent"}
        /\ (last.ret = "SellsyEvent") <=> (json_loads(last.notif) = "")
        /\ last.notif = PyNone => last.ret = "None"
        /\ last.notif \in {PyStr(<<>>), PyStr(<<"[">>), PyStr(<<"[", "1", ",">>),
                           PyStr(<<"a">>), PyStr(<<"1", "a">>), PyStr(<<"\"", "a">>),
                           PyStr(<<"[", ",", "]">>), PyStr(<<"]">>)}
              => last.ret = "None"
        /\ last.notif \in {PyStr(<<"1">>), PyStr(<<"[", "]">>), PyStr(<<"[", "1", "]">>),
                           PyStr(<<"\"", "\"">>), PyStr(<<"\"", "a", "\"">>),
                           PyStr(<<"\"", "[", "\"">>), PyStr(<<"1", "1">>)}
              => last.ret = "SellsyEvent"

\* C15 witness: the field was missing and the view returned None.
C15_Witness ==
    /\ last.op = "handle_webhook"
    /\ last.notif = PyNone
    /\ last.exc = "" /\ last.ret = "None"

---------------------------------------------------------------------------
(* The API object wrapper (helpers.py): a Client holds a sellsy_id and the *)
(* api_object_content that fetch() stores.                                 *)

\* api_object_content: the class attribute {} until a fetch stores the
\* answer of get_client_by_id, a client's content or None.
NoContent == [t |-> "empty", clientid |-> 0]

NoneContent == [t |-> "none", clientid |-> 0]

ClientContent(client_id) == [t |-> "client", clientid |-> client_id]

ApiObject(sellsy_id, content) == [sellsy_id |-> sellsy_id, api_object_content |-> content]

NoObject == ApiObject(0, NoContent)

\* get_client_by_id letting the SellsyError of the remote call through.
client_fetched_or_raised(st, client_id) ==
    IF st.exc # "" THEN Result(st, NoneContent) ELSE Result(st, ClientContent(client_id))

\* The end of get_client_by_id: the answer of Client.getOne, or None once
\* the SellsyError is caught and logged.
client_fetched_or_none(st, client_id) ==
    IF st.exc = "SellsyError" THEN Result([st EXCEPT !.exc = ""], NoneContent)
    ELSE Result(st, ClientContent(client_id))

\* get_client_by_id, run from the state st, through _get_one.
get_client_by_id(st, client_id, failAt) ==
    client_fetched_or_none(
        call_api(st, SEARCH_TYPE_CLIENTS \o ".getOne", [clientid |-> client_id], failAt),
        client_id)

\* Client._fetch_api_object and SellsyApiObject.fetch: the answer is stored
\* unless the call raised.
content_stored(object, r) ==
    Result(r.st, IF r.st.exc # "" THEN object ELSE [object EXCEPT !.api_object_content = r.ret])

fetch(st, object, failAt) ==
    content_stored(object, get_client_by_id(st, object.sellsy_id, failAt))

\* SellsyApiObject.__init__
api_object_init(st, sellsy_id, do_fetch, failAt) ==
    IF do_fetch THEN fetch(st, ApiObject(sellsy_id, NoContent), failAt)
    ELSE Result(st, ApiObject(sellsy_id, NoContent))

\* The end of Client.create: cls(sellsy_id=sellsy_id, fetch=fetch, ...).
client_created(r, do_fetch, failAt) ==
    IF r.st.exc # "" THEN Result(r.st, NoObject)
    ELSE api_object_init(r.st, r.ret.id, do_fetch, failAt)

\* Client.create(data, fetch, sellsy_client)
client_create(c, rem, data, do_fetch, new_client_id, failAt) ==
    client_created(create_company(c, rem, data, new_client_id, failAt), do_fetch, failAt)

ClientIds == {41, 42, 43}

ClientInit(self, sellsy_id, do_fetch, failAt) ==
    Ran(self, api_object_init(Start(cache[self], remote), sellsy_id, do_fetch, failAt),
        [op |-> "Client", sellsy_id |-> sellsy_id, fetch |-> do_fetch, failAt |-> failAt])

\* fetch() of a Client built with fetch=False.
ClientFetch(self, sellsy_id, failAt) ==
    Ran(self, fetch(Start(cache[self], remote), ApiObject(sellsy_id, NoContent), failAt),
        [op |-> "Client.fetch", sellsy_id |-> sellsy_id, fetch |-> TRUE,
         failAt |-> failAt])

ClientCreate(self, data, do_fetch, new_client_id, failAt) ==
    Ran(self, client_create(cache[self], remote, data, do_fetch, new_client_id, failAt),
        [op |-> "Client.create", sellsy_id |-> new_client_id, fetch |-> do_fetch,
         failAt |-> failAt, data |-> data])

\* The Client objects built over one SellsyClient.
NextObjects ==
    \/ RemoteChange
    \/ \E sellsy_id \in ClientIds, do_fetch \in BOOLEAN, failAt \in 0..1 :
          ClientInit(1, sellsy_id, do_fetch, failAt)
    \/ \E sellsy_id \in ClientIds, failAt \in 0..1 : ClientFetch(1, sellsy_id, failAt)
    \/ \E data \in ClientDatas, do_fetch \in BOOLEAN, new_client_id \in NewIds,
          failAt \in 0..MaxFailAt :
          ClientCreate(1, data, do_fetch, new_client_id, failAt)

SpecObjects == Init /\ [][NextObjects]_vars

IsObjectOperation == last.op \in {"Client", "Client.fetch", "Client.create"}

\* The remote system answered the Client.getOne of the operation with an
\* error.
GetOneFailed ==
    /\ IsObjectOperation
    /\ last.failAt \in 1..Len(last.calls)
    /\ last.calls[last.failAt].method = "Client.getOne"

\* C16 as stated: when the remote system answers the Client.getOne of
\* Client.fetch, of the eager fetch of the construction or of Client.create
\* with an error, the error reaches the caller.
C16_FetchErrorReachesTheCaller ==
    GetOneFailed => last.exc = "SellsyError"

\* C16 amended: the SellsyError of Client.getOne is caught in
\* get_client_by_id: the operation ends without an exception and the Client
\* holds api_object_content None; a successful fetch stores the client's
\* content; without a fetch the content stays the empty class attribute; the
\* only error that reaches the caller of these operations is that of a call
\* made by create_company inside Client.create.
C16_FetchErrorLeavesNoneContent ==
    IsObjectOperation =>
        /\ GetOneFailed =>
              /\ last.exc = ""
              /\ last.ret = ApiObject(last.sellsy_id, NoneContent)
        /\ (last.exc = "" /\ last.fetch /\ ~GetOneFailed) =>
              last.ret = ApiObject(last.sellsy_id, ClientContent(last.sellsy_id))
        /\ (last.exc = "" /\ ~last.fetch) =>
              last.ret = ApiObject(last.sellsy_id, NoContent)
        /\ last.exc # "" =>
              /\ last.op = "Client.create" /\ last.exc = "SellsyError"
              /\ CallsTo("Client.getOne") = <<>>

\* C16 witness: Client.create made the client, the eager fetch failed, and
\* the caller got a Client whose content is None.
C16_Witness ==
    /\ last.op = "Client.create" /\ GetOneFailed
    /\ last.exc = ""
    /\ last.ret.api_object_content = NoneContent
    /\ Len(CallsTo("Client.create")) = 1

---------------------------------------------------------------------------
(* The bulk deletions: delete_all_property_groups, delete_all_products and *)
(* delete_all_clients (delete_all_properties is above).                    *)

MaxBulkFailAt == 5

\* `if group_id:` is false for None and for 0.
delete_property_group(st, code, failAt) ==
    LET r == get_property_group_id(st.cache, st.rem, code, TRUE, FailsNext(st, failAt))
        st1 == After(st, r)
    IN IF st.exc # "" THEN st
       ELSE IF st1.exc # "" \/ r.none \/ r.id = 0 THEN st1
       ELSE call_api(st1, "CustomFields.deleteGroup", [groupid |-> r.id], failAt)

RECURSIVE delete_each_property_group(_, _, _)
delete_each_property_group(st, groups_data, failAt) ==
    IF st.exc # "" \/ Len(groups_data) = 0 THEN st
    ELSE LET st1 == delete_property_group(st, Head(groups_data).code, failAt) IN
         delete_each_property_group(IF st1.exc # "" THEN st1 ELSE wait(st1),
                                    Tail(groups_data), failAt)

delete_all_property_groups(c, rem, failAt) ==
    LET st0 == Start(c, rem)
        raw == get_property_groups_raw_data(c, rem, TRUE, FailsNext(st0, failAt))
        st1 == After(st0, raw)
    IN IF st1.exc # "" \/ Len(raw.data) = 0 THEN st1
       ELSE delete_each_property_group(st1, raw.data, failAt)

delete_product(st, product_id, failAt) ==
    IF st.exc # "" THEN st
    ELSE call_api(st, "Catalogue.delete", [type |-> "item", id |-> product_id], failAt)

\* The loop of delete_all_products going on to the next product after a
\* delete call that failed.
RECURSIVE delete_each_product_continuing(_, _, _)
delete_each_product_continuing(st, all_products_data, failAt) ==
    IF Len(all_products_data) = 0 THEN st
    ELSE delete_each_product_continuing(
             call_api(st, "Catalogue.delete",
                      [type |-> "item", id |-> Head(all_products_data).id], failAt),
             Tail(all_products_data), failAt)

RECURSIVE delete_each_product(_, _, _)
delete_each_product(st, all_products_data, failAt) ==
    IF st.exc # "" \/ Len(all_products_data) = 0 THEN st
    ELSE delete_each_product(delete_product(st, Head(all_products_data).id, failAt),
                             Tail(all_products_data), failAt)

delete_all_products(c, rem, failAt) ==
    LET st0 == Start(c, rem)
        raw == get_products_raw_data(c, rem, FALSE, FailsNext(st0, failAt))
        st1 == After(st0, raw)
    IN IF st1.exc # "" THEN st1
       ELSE delete_each_product(st1, raw.data, failAt)

delete_client(st, client_id, failAt) ==
    IF st.exc # "" THEN st
    ELSE call_api(st, "Client.delete", [clientid |-> client_id], failAt)

\* d.get(key): None for a key the dict does not have.
dict_get(d, key) == IF key \in DOMAIN d THEN d[key] ELSE PyNone

\* The value slots of a custom field, in the order the code reads them.
ValueSlots ==
    <<"boolval", "decimalval", "formatted_value", "numericval", "stringval",
      "textval", "timestampval">>

has_code(custom_field, key) == "code" \in DOMAIN custom_field /\ custom_field.code = key

\* The answer comes from the first custom field of that code.
check_standard_or_custom_field(data, key, value) ==
    LET coded(custom_field) == has_code(custom_field, key)
        hits == SelectSeq(data.customfields, coded)
    IN \/ py_eq(dict_get(data.fields, key), value)
       \/ /\ Len(hits) > 0
          /\ \E i \in DOMAIN ValueSlots : py_eq(dict_get(Head(hits), ValueSlots[i]), value)

\* all([...]) over the items of `having`.
clients_to_delete(all_clients, having) ==
    LET kept(client_data) ==
            \A i \in DOMAIN having :
               check_standard_or_custom_field(client_data, having[i].key, having[i].value)
    IN SelectSeq(all_clients, kept)

RECURSIVE delete_each_client(_, _, _)
delete_each_client(st, clients, failAt) ==
    IF st.exc # "" \/ Len(clients) = 0 THEN st
    ELSE delete_each_client(delete_client(st, Head(clients).key, failAt),
                            Tail(clients), failAt)

delete_all_clients(c, rem, having, failAt) ==
    LET st0 == Start(c, rem)
        raw == get_clients_raw_data(c, rem, TRUE, FailsNext(st0, failAt))
        st1 == After(st0, raw)
    IN IF st1.exc # "" \/ Len(raw.data) = 0 THEN st1
       ELSE delete_each_client(st1, clients_to_delete(raw.data, having), failAt)

\* The `having` filters callers pass: none, a standard field, a custom field.
Havings ==
    { << >>,
      << [key |-> "name", value |-> PyStr(<<"A">>)] >>,
      << [key |-> "vip", value |-> PyStr(<<"g">>)] >> }

DeleteAllPropertyGroups(self, failAt) ==
    Ran(self, Result(delete_all_property_groups(cache[self], remote, failAt), NoReturn),
        [op |-> "delete_all_property_groups", failAt |-> failAt])

DeleteAllProducts(self, failAt) ==
    Ran(self, Result(delete_all_products(cache[self], remote, failAt), NoReturn),
        [op |-> "delete_all_products", failAt |-> failAt])

DeleteAllClients(self, having, failAt) ==
    Ran(self, Result(delete_all_clients(cache[self], remote, having, failAt), NoReturn),
        [op |-> "delete_all_clients", having |-> having, failAt |-> failAt])

\* The bulk deletions of one SellsyClient, one kind of entity per behaviour.
NextBulk ==
    \/ RemoteChange
    \/ \E failAt \in 0..MaxBulkFailAt :
          OnlyTable(1, "properties") /\ DeleteAllProperties(1, failAt)
    \/ \E failAt \in 0..MaxBulkFailAt :
          OnlyTable(1, "property_groups") /\ DeleteAllPropertyGroups(1, failAt)
    \/ \E failAt \in 0..MaxBulkFailAt :
          OnlyTable(1, "products") /\ DeleteAllProducts(1, failAt)
    \/ \E having \in Havings, failAt \in 0..MaxBulkFailAt :
          OnlyTable(1, "clients") /\ DeleteAllClients(1, having, failAt)

SpecBulk == Init /\ [][NextBulk]_vars

---------------------------------------------------------------------------
(* Properties of the bulk deletions (SpecBulk).                            *)

BulkOperations ==
    {"delete_all_properties", "delete_all_property_groups", "delete_all_products",
     "delete_all_clients"}

DeleteMethods ==
    {"CustomFields.delete", "CustomFields.deleteGroup", "Catalogue.delete",
     "Client.delete"}

IsBulkDelete == last.op \in BulkOperations

IsDeleteCall(call) == call.method \in DeleteMethods

IsWait(call) == call.method = "time.sleep" /\ call.params.delay = POST_REQUEST_DELAY

\* The positions, in the calls of the last operation, of its delete calls.
DeletePositions == {i \in DOMAIN last.calls : IsDeleteCall(last.calls[i])}

ConsecutiveDeletes(i, j) ==
    /\ i \in DeletePositions /\ j \in DeletePositions /\ i < j
    /\ \A m \in DeletePositions : ~(i < m /\ m < j)

\* C17: in every bulk deletion (delete_all_properties,
\* delete_all_property_groups, delete_all_products, delete_all_clients)
\* there is exactly one wait of POST_REQUEST_DELAY between any two
\* consecutive delete calls, and a wait after each deletion that succeeded.
C17_OneWaitBetweenConsecutiveDeletes ==
    IsBulkDelete =>
       /\ \A i, j \in DOMAIN last.calls :
             ConsecutiveDeletes(i, j) =>
                Cardinality({m \in (i + 1)..(j - 1) : IsWait(last.calls[m])}) = 1
       /\ \A i \in DeletePositions :
             (i < Len(last.calls) \/ last.exc = "") =>
                i < Len(last.calls) /\ IsWait(last.calls[i + 1])

\* The table a bulk deletion empties.
BulkTable ==
    CASE last.op = "delete_all_properties" -> "properties"
      [] last.op = "delete_all_property_groups" -> "property_groups"
      [] last.op = "delete_all_products" -> "products"
      [] last.op = "delete_all_clients" -> "clients"

\* The entry a delete call names.
IsTarget(call, e) ==
    CASE call.method = "CustomFields.delete" -> CharsToNat(e.id) = call.params.id
      [] call.method = "CustomFields.deleteGroup" -> CharsToNat(e.id) = call.params.groupid
      [] call.method = "Catalogue.delete" -> e.id = call.params.id
      [] call.method = "Client.delete" -> e.key = call.params.clientid

\* The call of the last operation that the remote system refused.
FailedPosition ==
    CHOOSE i \in DOMAIN last.calls :
       /\ IsRemoteCall(last.calls[i])
       /\ Len(RemoteCalls(SubSeq(last.calls, 1, i))) = last.failAt

ADeleteCallFailed ==
    /\ IsBulkDelete
    /\ last.failAt \in 1..Len(RemoteCalls(last.calls))
    /\ IsDeleteCall(last.calls[FailedPosition])

\* C18: in every bulk deletion, when the k-th delete call fails the
\* operation raises that SellsyError, the failed call is the last call of
\* the operation, the entries named by the k-1 earlier delete calls are
\* gone from the remote table and every other entry is still there.
C18_FailedDeleteAbortsTheBatch ==
    ADeleteCallFailed =>
       LET earlier == {i \in DeletePositions : i < FailedPosition}
           kept(e) == \A i \in earlier : ~IsTarget(last.calls[i], e)
       IN /\ last.exc = "SellsyError"
          /\ FailedPosition = Len(last.calls)
          /\ last.after[BulkTable] = SelectSeq(last.before[BulkTable], kept)
          /\ \A t \in Tables \ {BulkTable} : last.after[t] = last.before[t]

\* A second delete call failed after a first one removed its entry.
C18_Witness ==
    /\ ADeleteCallFailed
    /\ Cardinality(DeletePositions) >= 2
    /\ Len(last.after[BulkTable]) < Len(last.before[BulkTable])
    /\ Len(last.after[BulkTable]) >= 1

---------------------------------------------------------------------------
(* Reading a property of a client: get_client_property_value(data,         *)
(* prop_name).  data is a client dict: its standard fields, and the        *)
(* 'customfields' list when the dict has that key.                         *)

\* a or b or ... : the first truthy operand, else the last one.
RECURSIVE or_chain(_)
or_chain(values) ==
    IF Len(values) = 1 \/ py_truthy(Head(values)) THEN Head(values)
    ELSE or_chain(Tail(values))

slot_values(custom_field) ==
    [i \in DOMAIN ValueSlots |-> dict_get(custom_field, ValueSlots[i])]

\* The for loop: the first custom field of that code whose value is truthy
\* returns it; the end of the list returns None.
RECURSIVE scan_custom_fields(_, _)
scan_custom_fields(custom_fields, prop_name) ==
    IF Len(custom_fields) = 0 THEN PyNone
    ELSE LET value == or_chain(slot_values(Head(custom_fields))) IN
         IF has_code(Head(custom_fields), prop_name) /\ py_truthy(value) THEN value
         ELSE scan_custom_fields(Tail(custom_fields), prop_name)

\* data.get('customfields') is None for a dict without the key, and
\* `for ... in None` raises TypeError.
get_client_property_value(data, prop_name) ==
    IF prop_name \in DOMAIN data.fields
    THEN [exc |-> "", ret |-> data.fields[prop_name]]
    ELSE IF "customfields" \notin DOMAIN data
    THEN [exc |-> "TypeError", ret |-> PyNone]
    ELSE [exc |-> "", ret |-> scan_custom_fields(data.customfields, prop_name)]

MaxFields == 2

\* Custom fields as Client.getOne lists them: slots all falsy, a later slot
\* truthy after falsy ones, another code, no slot at all.
CustomFieldEntries ==
    { [code |-> "vip", boolval |-> PyBool(FALSE), numericval |-> PyInt(0)],
      [code |-> "vip", boolval |-> PyBool(FALSE), decimalval |-> PyFloat(25),
       stringval |-> PyStr(<<"g">>)],
      [code |-> "vip", stringval |-> PyStr(<<>>), textval |-> PyStr(<<"t">>),
       timestampval |-> PyInt(7)],
      [code |-> "other", boolval |-> PyBool(TRUE)],
      [code |-> "vip"] }

StandardFields ==
    { [name |-> PyStr(<<"A">>)], [name |-> PyStr(<<"A">>), vip |-> PyInt(0)] }

ClientDicts ==
    {[fields |-> f] : f \in StandardFields}
    \cup {[fields |-> f, customfields |-> cfs] :
             f \in StandardFields, cfs \in SeqsUpTo(CustomFieldEntries, MaxFields)}

PropNames == {"name", "vip", "nope"}

GetClientPropertyValue(self, data, prop_name) ==
    LET r == get_client_property_value(data, prop_name) IN
    /\ last' = [op |-> "get_client_property_value", self |-> self, data |-> data,
                prop_name |-> prop_name, exc |-> r.exc, ret |-> r.ret]
    /\ UNCHANGED <<remote, cache>>

NextValues ==
    \E data \in ClientDicts, prop_name \in PropNames :
       GetClientPropertyValue(1, data, prop_name)

SpecValues == Init /\ [][NextValues]_vars

---------------------------------------------------------------------------
(* Properties of get_client_property_value (SpecValues).                   *)

IsPropertyRead == last.op = "get_client_property_value"

\* The custom fields of the dict read, none for a dict without the list.
FieldsRead ==
    IF "customfields" \in DOMAIN last.data THEN last.data.customfields ELSE << >>

\* Slot k of custom field i has the code asked for and a truthy value.
IsTruthySlot(i, k) ==
    /\ has_code(FieldsRead[i], last.prop_name)
    /\ ValueSlots[k] \in DOMAIN FieldsRead[i]
    /\ py_truthy(FieldsRead[i][ValueSlots[k]])

TruthySlots == {p \in (DOMAIN FieldsRead) \X (DOMAIN ValueSlots) : IsTruthySlot(p[1], p[2])}

IsFirstSlot(p) ==
    /\ p \in TruthySlots
    /\ \A q \in TruthySlots : q[1] > p[1] \/ (q[1] = p[1] /\ q[2] >= p[2])

\* C19: get_client_property_value(data, name) returns data[name] when name
\* is a standard-field key of data; otherwise it returns the first
\* non-falsy slot, in the order boolval, decimalval, formatted_value,
\* numericval, stringval, textval, timestampval, of the custom fields whose
\* code is name, and None when there is no such slot.
C19_StandardFieldThenFirstTruthySlot ==
    IsPropertyRead =>
       /\ last.exc = ""
       /\ IF last.prop_name \in DOMAIN last.data.fields
          THEN last.ret = last.data.fields[last.prop_name]
          ELSE IF TruthySlots = {} THEN last.ret = PyNone
          ELSE \E p \in TruthySlots :
                  IsFirstSlot(p) /\ last.ret = FieldsRead[p[1]][ValueSlots[p[2]]]

---------------------------------------------------------------------------
(* create_invoice_from_proforma: the proforma is fetched, its rows are     *)
(* rebuilt as invoice rows, and the invoice is created from them.          *)

\* A decimal literal with one digit after the point, as "5.5" or "10.0".
IsDecimalLiteral(cs) ==
    /\ Len(cs) >= 3
    /\ cs[Len(cs) - 1] = "."
    /\ IsDigit(cs[Len(cs)])
    /\ IsIntLiteral(SubSeq(cs, 1, Len(cs) - 2))

\* float(v): a number is itself, a str is parsed or raises ValueError, None
\* raises TypeError.  n is in tenths.
py_float(v) ==
    CASE IsNumber(v) -> [exc |-> "", n |-> v.n]
      [] v.t = "str" ->
            IF IsIntLiteral(v.s) THEN [exc |-> "", n |-> CharsToNat(v.s) * 10]
            ELSE IF IsDecimalLiteral(v.s)
            THEN [exc |-> "", n |-> CharsToNat(SubSeq(v.s, 1, Len(v.s) - 2)) * 10
                                    + DigitVal(v.s[Len(v.s)])]
            ELSE [exc |-> "ValueError", n |-> 0]
      [] OTHER -> [exc |-> "TypeError", n |-> 0]

\* int(float(v))
py_int_of_float(v) ==
    IF py_float(v).exc # "" THEN py_float(v)
    ELSE py_int(PyFloat(py_float(v).n))

\* The conversions of one row, in the order the code makes them; the
\* discount unit is converted only `if row_discount:`.
row_conversion_exc(proforma_row) ==
    LET unit_price == py_float(dict_get(proforma_row, "unitAmount"))
        quantity == py_int_of_float(dict_get(proforma_row, "qt"))
        tax_rate == py_float(dict_get(proforma_row, "taxrate"))
        discount == py_float(dict_get(proforma_row, "discount"))
    IN IF unit_price.exc # "" THEN unit_price.exc
       ELSE IF quantity.exc # "" THEN quantity.exc
       ELSE IF tax_rate.exc # "" THEN tax_rate.exc
       ELSE IF discount.exc # "" THEN discount.exc
       ELSE IF discount.n # 0
       THEN py_int_of_float(dict_get(proforma_row, "discountUnit")).exc
       ELSE ""

\* `if row_discount and row_discount_unit:`
has_row_discount(proforma_row) ==
    /\ py_float(dict_get(proforma_row, "discount")).n # 0
    /\ py_int_of_float(dict_get(proforma_row, "discountUnit")).n # 0

\* invoice_row of a row whose conversions succeed.
invoice_row_of(proforma_row) ==
    (IF has_row_discount(proforma_row)
     THEN [discount |-> PyFloat(py_float(dict_get(proforma_row, "discount")).n),
           discount_unit |->
               [t |-> "int", n |-> py_int_of_float(dict_get(proforma_row, "discountUnit")).n,
                s |-> << >>]]
     ELSE EmptyDict)
    @@ [title |-> dict_get(proforma_row, "name"),
        description |-> dict_get(proforma_row, "notes"),
        unit_price |-> PyFloat(py_float(dict_get(proforma_row, "unitAmount")).n),
        quantity |-> [t |-> "int", n |-> py_int_of_float(dict_get(proforma_row, "qt")).n,
                      s |-> << >>],
        tax_rate |-> PyFloat(py_float(dict_get(proforma_row, "taxrate")).n)]

\* An entry of proforma['map']['rows'] is kept when it has a .get (it is a
\* dict) and its 'type' is 'once'.
is_once_row(entry) ==
    entry.dict /\ "type" \in DOMAIN entry.row /\ entry.row.type = "once"

\* The for loop over the proforma's rows: [exc, rows].
RECURSIVE invoice_rows_of(_, _)
invoice_rows_of(proforma_rows, invoice_rows) ==
    IF Len(proforma_rows) = 0 THEN [exc |-> "", rows |-> invoice_rows]
    ELSE IF ~is_once_row(Head(proforma_rows))
    THEN invoice_rows_of(Tail(proforma_rows), invoice_rows)
    ELSE IF row_conversion_exc(Head(proforma_rows).row) # ""
    THEN [exc |-> row_conversion_exc(Head(proforma_rows).row), rows |-> invoice_rows]
    ELSE invoice_rows_of(Tail(proforma_rows),
                         Append(invoice_rows, invoice_row_of(Head(proforma_rows).row)))

\* ','.join(words)
RECURSIVE join_words(_)
join_words(tags) ==
    IF Len(tags) = 0 THEN ""
    ELSE IF Len(tags) = 1 THEN Head(tags).word
    ELSE Head(tags).word \o "," \o join_words(Tail(tags))

\* invoice_data; timestamp is what strptime(displayedDate).timestamp()
\* yields in the time zone of the process.
invoice_data_of(proforma, proforma_id, invoice_rows, timestamp) ==
    [client_id |-> proforma.thirdid, parent_id |-> proforma_id, date |-> timestamp,
     tags |-> join_words(proforma.tags), rows |-> invoice_rows,
     discount |-> proforma.globalDiscount, discount_unit |-> proforma.globalDiscountUnit]

create_invoice(st, invoice_data, new_document_id, failAt) ==
    create_document(st, DOCUMENT_TYPE_INVOICE, invoice_data, new_document_id, failAt)

\* What the operation gives back when it stops before create_invoice.
proforma_aborted(st, proforma) ==
    [st |-> st, ret |-> NoReturn, data_after |-> EmptyDict]

invoice_from_rows(st, proforma, proforma_id, timestamp, converted, new_document_id, failAt) ==
    IF converted.exc # "" THEN proforma_aborted(Raise(st, converted.exc), proforma)
    ELSE create_invoice(st, invoice_data_of(proforma, proforma_id, converted.rows, timestamp),
                        new_document_id, failAt)

invoice_from_fetched(st, proforma, proforma_id, timestamp, new_document_id, failAt) ==
    IF st.exc # "" THEN proforma_aborted(st, proforma)
    ELSE invoice_from_rows(st, proforma, proforma_id, timestamp,
                           invoice_rows_of(proforma.rows, << >>), new_document_id, failAt)

\* proforma is the document the remote system answers Document.getOne with.
create_invoice_from_proforma(c, rem, proforma_id, proforma, timestamp, new_id, failAt) ==
    invoice_from_fetched(
        get_document_by_id(Start(c, rem), DOCUMENT_TYPE_PROFORMA, proforma_id, failAt),
        proforma, proforma_id, timestamp, new_id, failAt)

MaxProformaRows == 2

ProformaRow ==
    [type |-> "once", name |-> PyStr(<<"T">>), notes |-> PyStr(<<"D">>),
     unitAmount |-> PyStr(<<"1", "0", ".", "0">>), qt |-> PyStr(<<"2", ".", "0">>),
     taxrate |-> PyStr(<<"2", "0", ".", "0">>)]

\* The entries of a proforma's rows: content rows with no discount (zero, or
\* no 'discount' at all), with a discount, with a discount whose unit is
\* zero; a row of another type; an entry that is no dict.
ProformaEntries ==
    { [dict |-> TRUE, row |-> [discount |-> PyStr(<<"0", ".", "0">>)] @@ ProformaRow],
      [dict |-> TRUE, row |-> ProformaRow],
      [dict |-> TRUE, row |-> [discount |-> PyStr(<<"5", ".", "5">>),
                               discountUnit |-> PyStr(<<"1">>)] @@ ProformaRow],
      [dict |-> TRUE, row |-> [discount |-> PyStr(<<"5", ".", "5">>),
                               discountUnit |-> PyStr(<<"0">>)] @@ ProformaRow],
      [dict |-> TRUE, row |-> [type |-> "sum"]],
      [dict |-> FALSE, row |-> EmptyDict] }

Proformas ==
    { [thirdid |-> 7, tags |-> << [word |-> "a"], [word |-> "b"] >>,
       globalDiscount |-> PyStr(<<"0", ".", "0">>), globalDiscountUnit |-> PyStr(<<"0">>),
       rows |-> rows] : rows \in SeqsUpTo(ProformaEntries, MaxProformaRows) }

CreateInvoiceFromProforma(self, proforma_id, proforma, timestamp, new_document_id, failAt) ==
    LET r == create_invoice_from_proforma(cache[self], remote, proforma_id, proforma,
                                          timestamp, new_document_id, failAt)
    IN Ran(self, r,
           [op |-> "create_invoice_from_proforma", proforma_id |-> proforma_id,
            proforma |-> proforma, new_document_id |-> new_document_id])

\* The conversion of proformas by one SellsyClient.
NextProforma ==
    \/ RemoteChange
    \/ \E proforma \in Proformas, failAt \in 0..MaxFailAt :
          CreateInvoiceFromProforma(1, 41, proforma, PyFloat(864000), 42, failAt)

SpecProforma == Init /\ [][NextProforma]_vars

---------------------------------------------------------------------------
(* Properties of create_invoice_from_proforma (SpecProforma).              *)

IsFromProforma == last.op = "create_invoice_from_proforma"

\* The rows create_invoice was called with, as _create_document sent them.
IsInvoiceSent ==
    /\ IsFromProforma
    /\ \E i \in DOMAIN last.calls : last.calls[i].method = "Document.create"

InvoiceSent ==
    last.calls[CHOOSE i \in DOMAIN last.calls :
                  last.calls[i].method = "Document.create"].params

\* The content rows of the proforma, in its order.
OnceEntries == SelectSeq(last.proforma.rows, is_once_row)

IsNonZero(row, key) ==
    /\ key \in DOMAIN row
    /\ py_float(row[key]).exc = ""
    /\ py_float(row[key]).n # 0

HasNoDiscount(row) == "discount" \notin DOMAIN row \/ ~IsNonZero(row, "discount")

\* C20: create_invoice_from_proforma passes to create_invoice exactly one
\* row per entry of the proforma's rows that is a dict of type 'once', in the
\* proforma's order; a row carries discount and discount_unit exactly when
\* the proforma row's discount and discount unit are both present and
\* non-zero; and no row without a discount makes the operation fail.
C20_OneRowPerOnceEntryDiscountIffBoth ==
    IsFromProforma =>
       /\ (last.exc \in {"TypeError", "ValueError"}) =>
             \E i \in DOMAIN OnceEntries : ~HasNoDiscount(OnceEntries[i].row)
       /\ IsInvoiceSent =>
             /\ Len(InvoiceSent.row) = Len(OnceEntries) + 1
             /\ \A i \in DOMAIN OnceEntries :
                   /\ InvoiceSent.row[i].row_name = OnceEntries[i].row.name
                   /\ ("row_discount" \in DOMAIN InvoiceSent.row[i])
                         <=> (IsNonZero(OnceEntries[i].row, "discount")
                              /\ IsNonZero(OnceEntries[i].row, "discountUnit"))
                   /\ ("row_discountUnit" \in DOMAIN InvoiceSent.row[i])
                         <=> ("row_discount" \in DOMAIN InvoiceSent.row[i])

---------------------------------------------------------------------------
(* get_client_id_by_property_value: the id of the one client a property    *)
(* search finds.  clients_data is the 'result' dict of the search, one      *)
(* entry per client found, keyed by the client's id.                       *)

has_key(clients_data, key) == \E i \in DOMAIN clients_data : clients_data[i].key = key

\* int(list(clients_data['result'].keys())[0]): clients_data['result'] is
\* read from the dict of the clients found, which raises KeyError unless a
\* key of that dict is 'result'.
first_key_of_result(clients_data) ==
    IF ~has_key(clients_data, "result") THEN [exc |-> "KeyError", n |-> 0]
    ELSE LET result == clients_data[CHOOSE i \in DOMAIN clients_data :
                                       clients_data[i].key = "result"]
         IN IF Len(result.keys) = 0 THEN [exc |-> "IndexError", n |-> 0]
            ELSE py_int(PyStr(result.keys[1]))

client_id_chosen(st, clients_data) ==
    IF st.exc # "" THEN Result(st, NoReturn)
    ELSE IF Len(clients_data) = 0 THEN Result(st, NoReturn)
    ELSE IF Len(clients_data) > 1 THEN Result(Raise(st, "ValueError"), NoReturn)
    ELSE IF first_key_of_result(clients_data).exc # ""
    THEN Result(Raise(st, first_key_of_result(clients_data).exc), NoReturn)
    ELSE Result(st, [none |-> FALSE, id |-> first_key_of_result(clients_data).n \div 10])

get_client_id_by_property_value(c, rem, prop_name, prop_value, found, failAt) ==
    LET clients == search_clients_by_property(c, rem, prop_name, prop_value, found, failAt)
    IN client_id_chosen(clients.st, clients.ret)

\* The clients a search finds: none, one, two.
\* key is the client's id, chars its text, keys the keys of the client's data.
Client101 == [key |-> "101", chars |-> <<"1", "0", "1">>, keys |-> << <<"i", "d">> >>]

Client102 == [key |-> "102", chars |-> <<"1", "0", "2">>, keys |-> << <<"i", "d">> >>]

FoundClients == { << >>, << Client101 >>, << Client101, Client102 >> }

GetClientIdByPropertyValue(self, prop_name, prop_value, found, failAt) ==
    Ran(self,
        get_client_id_by_property_value(cache[self], remote, prop_name, prop_value, found,
                                        failAt),
        [op |-> "get_client_id_by_property_value", prop_name |-> prop_name,
         prop_value |-> prop_value, found |-> found])

\* The lookups of a client by a property value, by one SellsyClient.
NextLookup ==
    \/ RemoteChange
    \/ \E prop_name \in {"age", "nope"}, prop_value \in SearchValues,
          found \in FoundClients, failAt \in 0..MaxFailAt :
          GetClientIdByPropertyValue(1, prop_name, prop_value, found, failAt)

SpecLookup == Init /\ [][NextLookup]_vars

---------------------------------------------------------------------------
(* Properties of get_client_id_by_property_value (SpecLookup).             *)

\* The search was made and the remote system answered it.
IsLookupAnswered ==
    /\ last.op = "get_client_id_by_property_value"
    /\ Len(CallsTo("Client.getList")) = 1
    /\ last.exc # "SellsyError"

\* C21: get_client_id_by_property_value returns None when the search finds
\* no client, the id of the client when it finds exactly one, and raises
\* ValueError when it finds more than one.
C21_NoneOrTheIdOrValueError ==
    IsLookupAnswered =>
       CASE Len(last.found) = 0 -> last.exc = "" /\ last.ret.none
         [] Len(last.found) = 1 ->
               /\ last.exc = ""
               /\ ~last.ret.none
               /\ NatToChars(last.ret.id) = last.found[1].chars
         [] OTHER -> last.exc = "ValueError"

---------------------------------------------------------------------------
(* _create_document called again with the dict it was called with: the     *)
(* caller keeps its document_data and passes the same object a second time. *)

\* The paydate sent in the Document.create call of an operation, if any.
paydate_sent(calls) ==
    LET creates == SelectSeq(calls, LAMBDA call : call.method = "Document.create") IN
    IF Len(creates) = 0 \/ "paydate" \notin DOMAIN creates[1].params
    THEN [sent |-> FALSE, id |-> ResolvedId(NoReturn)]
    ELSE [sent |-> TRUE, id |-> creates[1].params.paydate.id]

\* The first call: the caller builds document_data and creates an invoice.
CreateDocumentFirst(self, document_data, new_document_id, failAt) ==
    LET r == create_document(Start(cache[self], remote), DOCUMENT_TYPE_INVOICE,
                             document_data, new_document_id, failAt)
    IN Ran(self, r,
           [op |-> "create_document_first", document_data |-> document_data,
            data_after |-> r.data_after, first |-> paydate_sent(r.st.calls)])

\* The second call, with the same dict as the first call left it; `first`
\* keeps what the first call sent.
CreateDocumentAgain(self, new_document_id, failAt) ==
    LET r == create_document(Start(cache[self], remote), DOCUMENT_TYPE_INVOICE,
                             last.data_after, new_document_id, failAt)
    IN /\ last.op = "create_document_first"
       /\ last.exc = ""
       /\ Ran(self, r,
              [op |-> "create_document_again", document_data |-> last.data_after,
               data_after |-> r.data_after, first |-> last.first,
               first_data |-> last.document_data, first_before |-> last.before])

\* The documents a caller creates twice: with a pay-date, without one.
RepeatedDocuments ==
    { [client_id |-> 7, rows |-> << >>, paydate |-> [id |-> StrId(code), custom |-> 0]] :
         code \in {"onorder", "30days", "custom"} }
    \cup { [client_id |-> 7, rows |-> << >>],
           [client_id |-> 7, rows |-> << >>, subject |-> "S"] }

NextRepeat ==
    \/ RemoteChange
    \/ \E document_data \in RepeatedDocuments, failAt \in 0..MaxFailAt :
          CreateDocumentFirst(1, document_data, 42, failAt)
    \/ \E failAt \in 0..MaxFailAt : CreateDocumentAgain(1, 43, failAt)

SpecRepeat == Init /\ [][NextRepeat]_vars

---------------------------------------------------------------------------
(* Properties of repeated document creation (SpecRepeat).                  *)

IsCreateDocument == last.op \in {"create_document_first", "create_document_again"}

\* The second call ran against the remote tables the first call ran against.
IsSecondCallOnSameRemote ==
    /\ last.op = "create_document_again"
    /\ last.before = last.first_before
    /\ last.first.sent
    /\ paydate_sent(last.calls).sent

\* C22: _create_document leaves the caller's document_data, its 'paydate'
\* record included, as it was before the call, and two successive calls
\* with the same document_data send the same resolved pay-date id in their
\* Document.create calls.
C22_InputUnchangedSamePaydateSent ==
    /\ IsCreateDocument => last.data_after = last.document_data
    /\ IsSecondCallOnSameRemote => paydate_sent(last.calls).id = last.first.id

---------------------------------------------------------------------------
(* record_property_values called by itself, for an entity that exists.     *)

RecordPropertyValues(self, linked_type, linked_id, prop_values, failAt) ==
    Ran(self,
        Result(record_property_values(Start(cache[self], remote), linked_type, linked_id,
                                      prop_values, failAt), NoReturn),
        [op |-> "record_property_values", linked_type |-> linked_type,
         linked_id |-> linked_id, prop_values |-> prop_values])

NextRecord ==
    \/ RemoteChange
    \/ \E linked_type \in {"client", "document"}, prop_values \in CustomDicts,
          failAt \in 0..MaxFailAt :
          RecordPropertyValues(1, linked_type, 41, prop_values, failAt)

SpecRecord == Init /\ [][NextRecord]_vars

---------------------------------------------------------------------------
(* Properties of record_property_values (SpecRecord).                      *)

IsValuesRecorded ==
    /\ last.op = "record_property_values"
    /\ Len(CallsTo("CustomFields.recordValues")) = 1

ValuesRecorded == CallsTo("CustomFields.recordValues")[1].params.values

\* C23: record_property_values sends in 'values' exactly one {cfid, value}
\* entry for every custom property the caller supplied, in the caller's
\* order, a property of falsy value included, and the cfid of every entry is
\* the id the property's code resolves to, never None.
C23_OneResolvedEntryPerProperty ==
    IsValuesRecorded =>
       /\ Len(ValuesRecorded) = Len(last.prop_values)
       /\ \A i \in DOMAIN ValuesRecorded :
             /\ i \in DOMAIN last.prop_values
             /\ ValuesRecorded[i].value = last.prop_values[i].value
             /\ ValuesRecorded[i].cfid = RemotePropertyId(last.prop_values[i].name)
             /\ ~ValuesRecorded[i].cfid.none

====
